---------------------------- MODULE Spec2Model ----------------------------
(***************************************************************************)
(* Docker Compose validator of the dev-tools repository: validate(doc),    *)
(* its depth-first cycle search hasCycle, and the DockerComposeValidator   *)
(* component that parses the text, calls validate and derives the verdict. *)
(*                                                                         *)
(* JavaScript strings are sequences of one-character strings, so that      *)
(* split(':'), includes, startsWith, the port patterns and String() are    *)
(* computed on characters.  A JavaScript value is a pair <<tag, payload>>. *)
(***************************************************************************)
EXTENDS Integers, Sequences, FiniteSets, TLC

\* Property names the validator reads, as JavaScript strings (sequences of characters).
k_version == <<"v","e","r","s","i","o","n">>
k_services == <<"s","e","r","v","i","c","e","s">>
k_volumes == <<"v","o","l","u","m","e","s">>
k_image == <<"i","m","a","g","e">>
k_build == <<"b","u","i","l","d">>
k_restart == <<"r","e","s","t","a","r","t">>
k_ports == <<"p","o","r","t","s">>
k_depends_on == <<"d","e","p","e","n","d","s","_","o","n">>
k_environment == <<"e","n","v","i","r","o","n","m","e","n","t">>
k_toString == <<"t","o","S","t","r","i","n","g">>

\* const validRestartPolicies = ['no', 'always', 'on-failure', 'unless-stopped']
validRestartPolicies ==
  << <<"n","o">>,
     <<"a","l","w","a","y","s">>,
     <<"o","n","-","f","a","i","l","u","r","e">>,
     <<"u","n","l","e","s","s","-","s","t","o","p","p","e","d">> >>

\* const validServiceKeys = new Set([...])
validServiceKeys ==
  { <<"i","m","a","g","e">>,
    <<"b","u","i","l","d">>,
    <<"c","o","m","m","a","n","d">>,
    <<"e","n","t","r","y","p","o","i","n","t">>,
    <<"c","o","n","t","a","i","n","e","r","_","n","a","m","e">>,
    <<"d","e","p","e","n","d","s","_","o","n">>,
    <<"e","n","v","i","r","o","n","m","e","n","t">>,
    <<"e","n","v","_","f","i","l","e">>,
    <<"e","x","p","o","s","e">>,
    <<"p","o","r","t","s">>,
    <<"v","o","l","u","m","e","s">>,
    <<"n","e","t","w","o","r","k","s">>,
    <<"r","e","s","t","a","r","t">>,
    <<"d","e","p","l","o","y">>,
    <<"l","a","b","e","l","s">>,
    <<"l","o","g","g","i","n","g">>,
    <<"h","e","a","l","t","h","c","h","e","c","k">>,
    <<"c","o","n","f","i","g","s">>,
    <<"s","e","c","r","e","t","s">>,
    <<"w","o","r","k","i","n","g","_","d","i","r">>,
    <<"u","s","e","r">>,
    <<"h","o","s","t","n","a","m","e">>,
    <<"d","o","m","a","i","n","n","a","m","e">>,
    <<"d","n","s">>,
    <<"d","n","s","_","s","e","a","r","c","h">>,
    <<"e","x","t","r","a","_","h","o","s","t","s">>,
    <<"l","i","n","k","s">>,
    <<"e","x","t","e","r","n","a","l","_","l","i","n","k","s">>,
    <<"s","t","d","i","n","_","o","p","e","n">>,
    <<"t","t","y">>,
    <<"c","a","p","_","a","d","d">>,
    <<"c","a","p","_","d","r","o","p">>,
    <<"d","e","v","i","c","e","s">>,
    <<"p","r","i","v","i","l","e","g","e","d">>,
    <<"r","e","a","d","_","o","n","l","y">>,
    <<"s","e","c","u","r","i","t","y","_","o","p","t">>,
    <<"t","m","p","f","s">>,
    <<"s","y","s","c","t","l","s">>,
    <<"u","l","i","m","i","t","s">>,
    <<"s","t","o","p","_","s","i","g","n","a","l">>,
    <<"s","t","o","p","_","g","r","a","c","e","_","p","e","r","i","o","d">>,
    <<"i","n","i","t">>,
    <<"p","l","a","t","f","o","r","m">>,
    <<"p","r","o","f","i","l","e","s">>,
    <<"p","u","l","l","_","p","o","l","i","c","y">>,
    <<"m","e","m","_","l","i","m","i","t">>,
    <<"m","e","m","s","w","a","p","_","l","i","m","i","t">>,
    <<"m","e","m","_","r","e","s","e","r","v","a","t","i","o","n">>,
    <<"c","p","u","s">>,
    <<"c","p","u","_","s","h","a","r","e","s">>,
    <<"c","p","u","_","q","u","o","t","a">>,
    <<"c","p","u","_","p","e","r","i","o","d">>,
    <<"c","p","u","s","e","t">>,
    <<"s","h","m","_","s","i","z","e">>,
    <<"p","i","d">>,
    <<"i","p","c">>,
    <<"e","x","t","e","n","d","s">>,
    <<"s","c","a","l","e">>,
    <<"r","u","n","t","i","m","e">>,
    <<"i","s","o","l","a","t","i","o","n">>,
    <<"n","e","t","w","o","r","k","_","m","o","d","e">>,
    <<"g","r","o","u","p","_","a","d","d">>,
    <<"c","g","r","o","u","p","_","p","a","r","e","n","t">>,
    <<"c","r","e","d","e","n","t","i","a","l","_","s","p","e","c">>,
    <<"o","o","m","_","s","c","o","r","e","_","a","d","j">>,
    <<"s","t","o","r","a","g","e","_","o","p","t">>,
    <<"a","n","n","o","t","a","t","i","o","n","s">> }

\* const validTopLevelKeys = new Set([...])
validTopLevelKeys ==
  { <<"v","e","r","s","i","o","n">>,
    <<"s","e","r","v","i","c","e","s">>,
    <<"n","e","t","w","o","r","k","s">>,
    <<"v","o","l","u","m","e","s">>,
    <<"c","o","n","f","i","g","s">>,
    <<"s","e","c","r","e","t","s">>,
    <<"n","a","m","e">> }

(***************************************************************************)
(* JavaScript values as produced by YAML.parse.                            *)
(***************************************************************************)
Undefined == <<"undefined", 0>>
Null == <<"null", 0>>
Bool(b) == <<"boolean", b>>
Num(n) == <<"number", n>>
Str(s) == <<"string", s>>
Arr(items) == <<"array", items>>
\* An object is the sequence of its own enumerable <<key, value>> pairs in
\* the order Object.keys enumerates them.
Obj(pairs) == <<"object", pairs>>

\* typeof v
TypeOf(v) ==
  IF v[1] \in {"null", "array", "object"} THEN "object" ELSE v[1]

\* Array.isArray(v)
IsArray(v) == v[1] = "array"

\* ToBoolean(v), as used by !x, x && y and if (x)
Truthy(v) ==
  CASE v[1] \in {"undefined", "null"} -> FALSE
    [] v[1] = "boolean" -> v[2]
    [] v[1] = "number" -> v[2] # 0
    [] v[1] = "string" -> Len(v[2]) > 0
    [] OTHER -> TRUE

RECURSIVE DigitsOf(_)
\* decimal digits of a natural number
DigitsOf(n) ==
  LET d == <<"0","1","2","3","4","5","6","7","8","9">>[(n % 10) + 1]
  IN IF n < 10 THEN <<d>> ELSE DigitsOf(n \div 10) \o <<d>>

\* Number.prototype.toString for an integer
NumberToString(n) ==
  IF n < 0 THEN <<"-">> \o DigitsOf(0 - n) ELSE DigitsOf(n)

\* Object.keys(v) for a value with typeof v = "object" that is not null:
\* the own keys of an object, the indices of an array.
Keys(v) ==
  IF v[1] = "object" THEN [i \in 1..Len(v[2]) |-> v[2][i][1]]
  ELSE IF v[1] = "array" THEN [i \in 1..Len(v[2]) |-> NumberToString(i - 1)]
  ELSE << >>

\* Object.entries(v)
Entries(v) ==
  IF v[1] = "object" THEN v[2]
  ELSE IF v[1] = "array"
       THEN [i \in 1..Len(v[2]) |-> <<NumberToString(i - 1), v[2][i]>>]
  ELSE << >>

\* v[k] / v.k: an own property, or undefined.  None of the names the
\* validator reads is a property of Object.prototype, Array.prototype or of a
\* primitive's wrapper, so a missing own property reads as undefined.
Get(v, k) ==
  LET e == Entries(v)
      hit == {i \in 1..Len(e) : e[i][1] = k}
  IN IF hit = {} THEN Undefined ELSE e[CHOOSE i \in hit : TRUE][2]

RECURSIVE StringThrows(_)
\* String(v) raises a TypeError ("Cannot convert object to primitive value")
\* when v is an object with an own, non-callable toString property: the
\* parser stores a mapping key toString as an own data property, and
\* Object.prototype.valueOf returns the object itself.  Array.prototype.join
\* converts every element that is neither null nor undefined.
StringThrows(v) ==
  CASE v[1] = "object" -> \E i \in 1..Len(v[2]) : v[2][i][1] = k_toString
    [] v[1] = "array" ->
         \E i \in 1..Len(v[2]) :
            /\ v[2][i][1] \notin {"undefined", "null"}
            /\ StringThrows(v[2][i])
    [] OTHER -> FALSE

RECURSIVE String(_)
RECURSIVE Join(_, _)
\* Array.prototype.join(",") from element i on
Join(items, i) ==
  IF i > Len(items) THEN << >>
  ELSE (IF items[i][1] \in {"undefined", "null"} THEN << >> ELSE String(items[i]))
       \o (IF i < Len(items) THEN <<",">> ELSE << >>)
       \o Join(items, i + 1)

\* String(v), defined where StringThrows(v) is false
String(v) ==
  CASE v[1] = "undefined" -> <<"u","n","d","e","f","i","n","e","d">>
    [] v[1] = "null" -> <<"n","u","l","l">>
    [] v[1] = "boolean" ->
         IF v[2] THEN <<"t","r","u","e">> ELSE <<"f","a","l","s","e">>
    [] v[1] = "number" -> NumberToString(v[2])
    [] v[1] = "string" -> v[2]
    [] v[1] = "array" -> Join(v[2], 1)
    [] OTHER -> <<"[","o","b","j","e","c","t"," ","O","b","j","e","c","t","]">>

\* line 93 without the split: the whole value is the base policy
SplitFirst_Whole(s) == s

\* s.split(':')[0]: the characters before the first ':'
RECURSIVE SplitFirst(_)
SplitFirst(s) ==
  IF s = << >> THEN << >>
  ELSE IF Head(s) = ":" THEN << >>
  ELSE <<Head(s)>> \o SplitFirst(Tail(s))

\* a.includes(x) for an array a of strings
Includes(a, x) == \E i \in 1..Len(a) : a[i] = x

\* s.includes(':')
IncludesChar(s, c) == \E i \in 1..Len(s) : s[i] = c

\* s.startsWith(c) for a one-character c
StartsWith(s, c) == Len(s) > 0 /\ s[1] = c

(***************************************************************************)
(* Diagnostics.  A message is the tuple of the parts of its template       *)
(* literal: the fixed text as TLA+ strings, the interpolated values as     *)
(* JavaScript strings.  path is a JavaScript string value or Undefined.    *)
(***************************************************************************)
ValidationError(sev, msg, path) ==
  [severity |-> sev, message |-> msg, path |-> path]

RECURSIVE Concat(_)
\* the pushes of a loop, one (possibly empty) sequence per iteration, in order
Concat(ss) ==
  IF Len(ss) = 0 THEN << >> ELSE Head(ss) \o Concat(Tail(ss))

Dot == <<".">>
\* `services.${name}`
SvcPath(name) == k_services \o Dot \o name

\* line 31 without Array.isArray(doc): a sequence passes for a mapping
RootIsNotMapping_NoArrayCheck(d) == TypeOf(d) # "object" \/ d = Null

\* line 31 without doc === null: typeof null is "object"
RootIsNotMapping_NoNullCheck(d) == TypeOf(d) # "object" \/ IsArray(d)

\* line 31: typeof doc !== 'object' || doc === null || Array.isArray(doc)
RootIsNotMapping(d) == TypeOf(d) # "object" \/ d = Null \/ IsArray(d)

\* line 32
RootError ==
  ValidationError("error", <<"Document must be a YAML mapping (object).">>, Undefined)

\* lines 39-43: one warning per root key outside validTopLevelKeys
TopLevelKeyWarnings(root) ==
  LET ks == Keys(root)
  IN Concat([i \in 1..Len(ks) |->
       IF ks[i] \notin validTopLevelKeys
       THEN <<ValidationError("warning",
                <<"Unknown top-level key \"", ks[i], "\".">>, Str(ks[i]))>>
       ELSE << >>])

\* line 46 testing the value's truth: a version of null, 0 or "" passes
VersionWarnings_WhenTruthy(root) ==
  IF Truthy(Get(root, k_version))
  THEN <<ValidationError("warning",
           <<"The \"version\" field is obsolete in Docker Compose v2+. It can be safely removed.">>,
           Str(k_version))>>
  ELSE << >>

\* lines 46-52
VersionWarnings(root) ==
  IF Get(root, k_version) # Undefined
  THEN <<ValidationError("warning",
           <<"The \"version\" field is obsolete in Docker Compose v2+. It can be safely removed.">>,
           Str(k_version))>>
  ELSE << >>

\* line 55 testing only for absence: root.services === undefined
ServicesMissing_OnlyAbsent(root) == Get(root, k_services) = Undefined

\* line 55: !root.services
ServicesMissing(root) == ~Truthy(Get(root, k_services))

\* line 60: typeof root.services !== 'object' || root.services === null
ServicesNotObject(root) ==
  TypeOf(Get(root, k_services)) # "object" \/ Get(root, k_services) = Null

\* line 56
MissingServicesError ==
  ValidationError("error", <<"Missing required \"services\" key.">>, Undefined)

\* line 61
ServicesShapeError ==
  ValidationError("error",
    <<"\"services\" must be a mapping of service definitions.">>, Undefined)

\* line 72
ServiceShapeError(name) ==
  ValidationError("error", <<"Service \"", name, "\" must be a mapping.">>,
    Str(SvcPath(name)))

\* line 79 with || for &&: the error when either of the two is missing
ImageBuildErrors_EitherMissing(name, svc) ==
  IF ~Truthy(Get(svc, k_image)) \/ ~Truthy(Get(svc, k_build))
  THEN <<ValidationError("error",
           <<"Service \"", name, "\" must have either \"image\" or \"build\".">>,
           Str(SvcPath(name)))>>
  ELSE << >>

\* lines 79-81
ImageBuildErrors(name, svc) ==
  IF ~Truthy(Get(svc, k_image)) /\ ~Truthy(Get(svc, k_build))
  THEN <<ValidationError("error",
           <<"Service \"", name, "\" must have either \"image\" or \"build\".">>,
           Str(SvcPath(name)))>>
  ELSE << >>

\* lines 84-88
UnknownKeyWarnings(name, svc) ==
  LET ks == Keys(svc)
  IN Concat([i \in 1..Len(ks) |->
       IF ks[i] \notin validServiceKeys
       THEN <<ValidationError("warning",
                <<"Unknown key \"", ks[i], "\" in service \"", name, "\".">>,
                Str(SvcPath(name) \o Dot \o ks[i]))>>
       ELSE << >>])

\* `Valid: ${validRestartPolicies.join(', ')}.`
RestartMessage(restart, name) ==
  <<"Invalid restart policy \"", restart, "\" in \"", name, "\". Valid: ">>
  \o Concat([i \in 1..Len(validRestartPolicies) |->
       <<validRestartPolicies[i]>>
       \o (IF i < Len(validRestartPolicies) THEN <<", ">> ELSE << >>)])
  \o <<".">>

\* line 92: String(svc.restart) raises
RestartThrows(svc) ==
  /\ Get(svc, k_restart) # Undefined
  /\ StringThrows(Get(svc, k_restart))

\* lines 91-101
RestartErrors(name, svc) ==
  IF Get(svc, k_restart) # Undefined
  THEN LET restart == String(Get(svc, k_restart))
           basePolicy == SplitFirst(restart)
       IN IF ~Includes(validRestartPolicies, basePolicy)
          THEN <<ValidationError("error", RestartMessage(restart, name),
                   Str(SvcPath(name) \o Dot \o k_restart))>>
          ELSE << >>
  ELSE << >>

(***************************************************************************)
(* The two port patterns of line 109, matched as the regular expression    *)
(* engine does: the set of positions reachable after each piece.           *)
(***************************************************************************)
DigitChars == {"0","1","2","3","4","5","6","7","8","9"}
\* \w is [A-Za-z0-9_]
WordChars ==
  DigitChars \cup {"_"} \cup
  {"a","b","c","d","e","f","g","h","i","j","k","l","m",
   "n","o","p","q","r","s","t","u","v","w","x","y","z"} \cup
  {"A","B","C","D","E","F","G","H","I","J","K","L","M",
   "N","O","P","Q","R","S","T","U","V","W","X","Y","Z"}

\* one character of class C, from every position of P
ReOne(s, P, C) == {i + 1 : i \in {j \in P : j < Len(s) /\ s[j + 1] \in C}}

\* one or more characters of class C, from every position of P
RePlus(s, P, C) ==
  {j \in 1..Len(s) : \E i \in P : i < j /\ \A k \in (i + 1)..j : s[k] \in C}

\* \d+([:-]\d+)?
RePortSpec(s, P) ==
  LET a == RePlus(s, P, DigitChars)
  IN a \cup RePlus(s, ReOne(s, a, {":", "-"}), DigitChars)

\* (\/\w+)?
ReProto(s, P) == P \cup RePlus(s, ReOne(s, P, {"/"}), WordChars)

\* /^\d+([:-]\d+)?(\/\w+)?$/.test(s)
MatchesBarePort(s) == Len(s) \in ReProto(s, RePortSpec(s, {0}))

\* /^\d+([:-]\d+)?:\d+([:-]\d+)?(\/\w+)?$/.test(s)
MatchesHostPort(s) ==
  Len(s) \in ReProto(s, RePortSpec(s, ReOne(s, RePortSpec(s, {0}), {":"})))

\* line 105 with the number test left out
IsPortText_StringOnly(port) == TypeOf(port) = "string"

\* line 105: typeof port === 'string' || typeof port === 'number'
IsPortText(port) == TypeOf(port) \in {"string", "number"}

\* lines 104-118.  JSON.stringify(port) of line 106 is computed for object
\* entries and its result is never used.
PortWarnings(name, svc) ==
  LET ports == Get(svc, k_ports)
  IN IF IsArray(ports)
     THEN Concat([i \in 1..Len(ports[2]) |->
            LET port == ports[2][i]
                pStr == String(port)
            IN IF /\ IsPortText(port)
                  /\ ~MatchesBarePort(pStr)
                  /\ ~MatchesHostPort(pStr)
               THEN <<ValidationError("warning",
                        <<"Unusual port format \"", pStr, "\" in \"", name,
                          "\". Expected format: \"host:container\" or \"container\".">>,
                        Str(SvcPath(name) \o Dot \o k_ports))>>
               ELSE << >>])
     ELSE << >>

\* lines 122-126: the names a depends_on value refers to
DepsOf(dependsOn) ==
  IF IsArray(dependsOn)
  THEN [i \in 1..Len(dependsOn[2]) |-> String(dependsOn[2][i])]
  ELSE IF TypeOf(dependsOn) = "object" /\ dependsOn # Null
       THEN Keys(dependsOn)
       ELSE << >>

\* line 123: svc.depends_on.map(String) raises
DepsThrow(dependsOn) ==
  /\ Truthy(dependsOn)
  /\ IsArray(dependsOn)
  /\ \E i \in 1..Len(dependsOn[2]) : StringThrows(dependsOn[2][i])

\* lines 128-134
UndefinedDepError(name, dep) ==
  ValidationError("error",
    <<"Service \"", name, "\" depends on \"", dep, "\", which is not defined.">>,
    Str(SvcPath(name) \o Dot \o k_depends_on))

\* lines 135-141
SelfDepError(name) ==
  ValidationError("error", <<"Service \"", name, "\" depends on itself.">>,
    Str(SvcPath(name) \o Dot \o k_depends_on))

\* lines 121-143 without the test of lines 128-134
DependsOnErrors_NoUndefinedCheck(name, svc, serviceNames) ==
  IF Truthy(Get(svc, k_depends_on))
  THEN LET deps == DepsOf(Get(svc, k_depends_on))
       IN Concat([i \in 1..Len(deps) |->
            IF deps[i] = name THEN <<SelfDepError(name)>> ELSE << >>])
  ELSE << >>

\* lines 121-143 with line 135 testing serviceNames.has(dep) for dep === name
DependsOnErrors_SelfWhenDefined(name, svc, serviceNames) ==
  IF Truthy(Get(svc, k_depends_on))
  THEN LET deps == DepsOf(Get(svc, k_depends_on))
       IN Concat([i \in 1..Len(deps) |->
            (IF deps[i] \notin serviceNames
             THEN <<UndefinedDepError(name, deps[i])>> ELSE << >>)
            \o (IF deps[i] \in serviceNames THEN <<SelfDepError(name)>> ELSE << >>)])
  ELSE << >>

\* lines 126-142 reporting a name only where it first occurs
DependsOnErrors_OncePerName(name, svc, serviceNames) ==
  IF Truthy(Get(svc, k_depends_on))
  THEN LET deps == DepsOf(Get(svc, k_depends_on))
       IN Concat([i \in 1..Len(deps) |->
            IF \E j \in 1..(i - 1) : deps[j] = deps[i]
            THEN << >>
            ELSE (IF deps[i] \notin serviceNames
                  THEN <<UndefinedDepError(name, deps[i])>> ELSE << >>)
                 \o (IF deps[i] = name THEN <<SelfDepError(name)>> ELSE << >>)])
  ELSE << >>

\* lines 121-143
DependsOnErrors(name, svc, serviceNames) ==
  IF Truthy(Get(svc, k_depends_on))
  THEN LET deps == DepsOf(Get(svc, k_depends_on))
       IN Concat([i \in 1..Len(deps) |->
            (IF deps[i] \notin serviceNames
             THEN <<UndefinedDepError(name, deps[i])>> ELSE << >>)
            \o (IF deps[i] = name THEN <<SelfDepError(name)>> ELSE << >>)])
  ELSE << >>

\* lines 146-154
EnvironmentErrors(name, svc) ==
  LET env == Get(svc, k_environment)
  IN IF /\ env # Undefined
        /\ env # Null
        /\ ~IsArray(env)
        /\ TypeOf(env) # "object"
     THEN <<ValidationError("error",
              <<"\"environment\" in \"", name, "\" must be a list or mapping.">>,
              Str(SvcPath(name) \o Dot \o k_environment))>>
     ELSE << >>

\* lines 157-171
VolumeWarnings(root, name, svc) ==
  LET vols == Get(svc, k_volumes)
      topVolumes == Get(root, k_volumes)
  IN IF IsArray(vols)
     THEN Concat([i \in 1..Len(vols[2]) |->
            LET vol == vols[2][i]
            IN IF /\ TypeOf(vol) = "string"
                  /\ ~IncludesChar(vol[2], ":")
                  /\ ~StartsWith(vol[2], "/")
                  /\ ~StartsWith(vol[2], ".")
                  /\ Truthy(topVolumes)
                  /\ TypeOf(topVolumes) = "object"
                  /\ ~Includes(Keys(topVolumes), vol[2])
               THEN <<ValidationError("warning",
                        <<"Volume \"", vol[2], "\" used in \"", name,
                          "\" is not defined in top-level \"volumes\".">>,
                        Str(SvcPath(name) \o Dot \o k_volumes))>>
               ELSE << >>])
     ELSE << >>

\* lines 183-188 without the mapping form: only a sequence gives names
CycleDeps_SequencesOnly(services, node) ==
  LET svc == Get(services, node)
      dependsOn == Get(svc, k_depends_on)
  IN IF svc \notin {Undefined, Null} /\ Truthy(dependsOn) /\ IsArray(dependsOn)
     THEN [i \in 1..Len(dependsOn[2]) |-> String(dependsOn[2][i])]
     ELSE << >>

\* lines 183-188: the names hasCycle iterates for a node
CycleDeps(services, node) ==
  LET svc == Get(services, node)
      dependsOn == Get(svc, k_depends_on)
  IN IF svc \notin {Undefined, Null} /\ Truthy(dependsOn)
     THEN IF IsArray(dependsOn)
          THEN [i \in 1..Len(dependsOn[2]) |-> String(dependsOn[2][i])]
          ELSE IF TypeOf(dependsOn) = "object" /\ dependsOn # Null
               THEN Keys(dependsOn)
               ELSE << >>
     ELSE << >>

\* line 200 left out: a searched node stays on the stack
StackDelete_Forgotten(s, node) == s

\* line 200: inStack.delete(node) when every dep has been searched
StackDelete(s, node) == s \ {node}

\* line 195 left out: a node that found a cycle stays on the stack
StackDeleteOnCycle_Forgotten(s, node) == s

\* line 195: inStack.delete(node) before returning true
StackDeleteOnCycle(s, node) == s \ {node}

\* line 179 left out: a visited node is searched again
AlreadyVisited_Never(node, vis) == FALSE

\* line 179: visited.has(node)
AlreadyVisited(node, vis) == node \in vis

\* line 190 without serviceNames.has(dep): every dep is searched
IsServiceName_Any(dep, serviceNames) == TRUE

\* line 190: serviceNames.has(dep)
IsServiceName(dep, serviceNames) == dep \in serviceNames

\* the list kept outside validate: a call goes on with the list it finds
NewErrorList_Shared(old) == old

\* line 29: const errors = []
NewErrorList(old) == << >>

\* lines 191-194
CycleError(node, dep) ==
  ValidationError("error",
    <<"Circular dependency detected involving \"", node, "\" and \"", dep, "\".">>,
    Undefined)

(***************************************************************************)
(* Inputs: the bounded families of editor texts the model checks, each     *)
(* given by the result of YAML.parse.                                      *)
(***************************************************************************)
\* bounds on the lengths of the sequences drawn below
MaxDeps == 2
MaxPorts == 2
MaxVolumes == 2

\* all sequences over S of length at most n
SeqsUpTo(S, n) == UNION {[1..k -> S] : k \in 0..n}

\* those without a repeated element
NoDupSeqsUpTo(S, n) ==
  {s \in SeqsUpTo(S, n) : \A i, j \in 1..Len(s) : i # j => s[i] # s[j]}

\* an own property of an object literal; a key whose value is absent is
\* not a property at all
Field(k, v) == IF v = Undefined THEN << >> ELSE << <<k, v>> >>

nA == <<"a">>
nB == <<"b">>
nC == <<"c">>
nZ == <<"z">>
n1 == <<"1">>
s_nginx == <<"n","g","i","n","x">>
s_xfoo == <<"x","-","f","o","o">>
s_extra == <<"e","x","t","r","a">>
s_target == <<"t","a","r","g","e","t">>
s_pgdata == <<"p","g","d","a","t","a">>
s_data == <<"d","a","t","a">>

\* what the try block of useMemo can throw: the TypeError of String(), an
\* Error of the parser (its message is not empty), or a value that is no Error
TypeErrorToPrimitive ==
  [isError |-> TRUE,
   message |-> <<"C","a","n","n","o","t"," ","c","o","n","v","e","r","t"," ",
                 "o","b","j","e","c","t"," ","t","o"," ","p","r","i","m","i",
                 "t","i","v","e"," ","v","a","l","u","e">>]
ParseErrors ==
  { [isError |-> TRUE,
     message |-> <<"U","n","e","x","p","e","c","t","e","d"," ","t","o","k","e","n">>],
    [isError |-> FALSE, message |-> << >>] }
\* line 352
DefaultParseMessage ==
  <<"Y","A","M","L"," ","p","a","r","s","e"," ","e","r","r","o","r">>

Parsed(d) == [parses |-> TRUE, doc |-> d, error |-> [isError |-> FALSE, message |-> << >>]]
Unparsable(e) == [parses |-> FALSE, doc |-> Undefined, error |-> e]

\* a service definition with the given properties, absent ones left out
Svc(image, build, restart, ports, dependsOn, environment, volumes, unknown) ==
  Obj(Field(k_image, image) \o Field(k_build, build)
      \o Field(k_restart, restart) \o Field(k_ports, ports)
      \o Field(k_depends_on, dependsOn) \o Field(k_environment, environment)
      \o Field(k_volumes, volumes) \o Field(s_xfoo, unknown))

FineService ==
  Svc(Str(s_nginx), Undefined, Undefined, Undefined, Undefined, Undefined,
      Undefined, Undefined)

ThrowingObject == Obj(<< <<k_toString, Num(1)>> >>)

\* a root mapping; pre and post are unknown top-level keys around the known ones
Root(pre, version, services, volumes, post) ==
  Obj([i \in 1..Len(pre) |-> <<pre[i], Num(1)>>]
      \o Field(k_version, version) \o Field(k_services, services)
      \o Field(k_volumes, volumes)
      \o [i \in 1..Len(post) |-> <<post[i], Num(1)>>])

\* roots that are no mapping
NonMappingRoots ==
  { Undefined, Null, Bool(TRUE), Bool(FALSE), Num(0), Num(5), Str(<< >>),
    Str(s_nginx), Arr(<< >>), Arr(<<Str(nA)>>),
    Arr(<<Root(<< >>, Undefined, Obj(<< <<nA, FineService>> >>), Undefined, << >>)>>) }

VersionVals == {Undefined, Null, Str(<<"3">>), Num(3)}

ServicesVals ==
  { Undefined, Null, Bool(FALSE), Num(0), Str(<< >>),
    Bool(TRUE), Num(5), Str(s_nginx),
    Arr(<< >>), Arr(<<Str(nA)>>), Arr(<<FineService>>),
    Obj(<< >>), Obj(<< <<nA, FineService>> >>) }

TopLevelDocs ==
  { Root(pre, ver, svcs, Undefined, post) :
      pre \in {<< >>, <<s_xfoo>>}, ver \in VersionVals,
      svcs \in ServicesVals, post \in {<< >>, <<s_extra>>} }

\* service definitions that differ from FineService in one respect
NonMappingDefs ==
  { Null, Str(s_nginx), Num(0), Num(5), Bool(TRUE), Bool(FALSE),
    Arr(<< >>), Arr(<<Str(s_nginx)>>) }

ImageVals == {Undefined, Null, Str(<< >>), Str(s_nginx)}
BuildVals == {Undefined, Str(<<".">>), Bool(FALSE), Obj(<< <<s_target, Str(<<".">>)>> >>)}
ImageBuildDefs ==
  { Svc(i, b, Undefined, Undefined, Undefined, Undefined, Undefined, u) :
      i \in ImageVals, b \in BuildVals, u \in {Undefined, Num(1)} }

RestartVals ==
  { Str(<<"n","o">>), Str(<<"a","l","w","a","y","s">>),
    Str(<<"o","n","-","f","a","i","l","u","r","e">>),
    Str(<<"u","n","l","e","s","s","-","s","t","o","p","p","e","d">>),
    Str(<<"o","n","-","f","a","i","l","u","r","e",":","3">>),
    Str(<<"n","o",":","x",":","y">>),
    Str(<<"s","o","m","e","t","i","m","e","s">>),
    Str(<<"s","o","m","e","t","i","m","e","s",":","n","o">>),
    Str(<<":","n","o">>), Str(<<"N","o">>), Str(<<"n","o"," ">>), Str(<< >>),
    Null, Bool(TRUE), Bool(FALSE), Num(5), Num(0),
    Arr(<< >>), Arr(<<Str(<<"n","o">>)>>),
    Arr(<<Str(<<"n","o">>), Str(<<"x">>)>>), Arr(<<Null>>),
    Arr(<<ThrowingObject>>), Obj(<< >>), ThrowingObject }
RestartDefs ==
  { Svc(Str(s_nginx), Undefined, r, Undefined, Undefined, Undefined, Undefined, Undefined) :
      r \in RestartVals }

PortVals ==
  { Str(<<"8","0","8","0",":","8","0">>), Str(<<"8","0","8","0","8","0">>),
    Str(<<"a","b","c",":","8","0">>), Str(<<"8","0","/","t","c","p">>),
    Str(<<"1",":","2",":","3">>), Str(<<"1",":","2",":","3",":","4">>),
    Str(<<"1","-","2",":","3","-","4","/","u","d","p">>), Str(<< >>),
    Num(8080), Num(0 - 1), Null, Bool(TRUE),
    Obj(<< <<s_target, Num(80)>> >>), ThrowingObject }
PortsVals ==
  {Arr(p) : p \in SeqsUpTo(PortVals, MaxPorts)}
  \cup {Str(<<"8","0">>), Num(80), Null, Obj(<< <<nA, Num(80)>> >>)}
PortDefs ==
  { Svc(Str(s_nginx), Undefined, Undefined, p, Undefined, Undefined, Undefined, Undefined) :
      p \in PortsVals }

DepElems ==
  { Str(nA), Str(nB), Str(nZ), Num(1), Null, Obj(<< >>), ThrowingObject }
DependsOnVals ==
  {Arr(d) : d \in SeqsUpTo(DepElems, MaxDeps)}
  \cup { Obj(<< <<nB, Obj(<< >>)>> >>), Obj(<< <<nZ, Obj(<< >>)>> >>),
         Obj(<< <<nA, Obj(<< >>)>> >>),
         Obj(<< <<nB, Obj(<< >>)>>, <<nZ, Null>> >>),
         Obj(<< <<n1, Null>>, <<nA, Null>>, <<nB, Null>> >>),
         Obj(<< <<k_toString, Null>> >>), Obj(<< >>),
         Str(nB), Str(<< >>), Num(0), Num(1), Bool(TRUE), Bool(FALSE), Null }
DependsOnDefs ==
  { Svc(Str(s_nginx), Undefined, Undefined, Undefined, d, Undefined, Undefined, Undefined) :
      d \in DependsOnVals }

EnvironmentVals ==
  { Null, Arr(<< >>), Arr(<<Str(nA)>>), Obj(<< >>), Obj(<< <<nA, Num(1)>> >>),
    Str(<< >>), Str(nA), Num(0), Num(5), Bool(TRUE), Bool(FALSE) }
EnvironmentDefs ==
  { Svc(Str(s_nginx), Undefined, Undefined, Undefined, Undefined, e, Undefined, Undefined) :
      e \in EnvironmentVals }

VolumeVals ==
  { Str(s_data), Str(s_pgdata), Str(<<".","/","x">>), Str(<<"/","x">>),
    Str(<<"d","a","t","a",":","/","x">>), Str(<<"0">>),
    Num(5), Obj(<< <<s_target, Str(s_data)>> >>) }
VolumesVals ==
  {Arr(v) : v \in SeqsUpTo(VolumeVals, MaxVolumes)}
  \cup {Str(s_data), Null, Obj(<< <<s_data, Null>> >>)}
VolumeDefs ==
  { Svc(Str(s_nginx), Undefined, Undefined, Undefined, Undefined, Undefined, v, Undefined) :
      v \in VolumesVals }
TopVolumesVals ==
  { Undefined, Null, Obj(<< >>), Obj(<< <<s_pgdata, Null>> >>),
    Obj(<< <<s_data, Null>>, <<s_pgdata, Null>> >>), Arr(<<Str(s_data)>>),
    Str(s_data), Bool(TRUE) }

\* definitions with a good or a bad value in each respect at once
MixedDefs ==
  { Svc(i, Undefined, r, p, d, e, v, u) :
      i \in {Undefined, Str(s_nginx)},
      r \in {Undefined, Str(<<"n","o">>), Str(<<"s","o","m","e","t","i","m","e","s">>)},
      p \in {Undefined, Arr(<<Str(<<"a","b","c",":","8","0">>)>>)},
      d \in {Undefined, Arr(<<Str(nZ), Str(nA)>>)},
      e \in {Undefined, Str(nA)},
      v \in {Undefined, Arr(<<Str(s_data)>>)},
      u \in {Undefined, Num(1)} }

\* the services mapping around a definition of service a: integer-like
\* keys are enumerated first by Object.keys
ServicesAround(def, others) ==
  Obj((IF n1 \in others THEN << <<n1, FineService>> >> ELSE << >>)
      \o << <<nA, def>> >>
      \o (IF nB \in others THEN << <<nB, FineService>> >> ELSE << >>))

FieldDocs ==
  { Root(<< >>, Undefined, ServicesAround(def, {}), Undefined, << >>) :
      def \in NonMappingDefs \cup ImageBuildDefs \cup RestartDefs
              \cup PortDefs \cup EnvironmentDefs }
  \cup
  { Root(<< >>, Undefined, ServicesAround(def, others), Undefined, << >>) :
      def \in DependsOnDefs, others \in {{}, {nB}, {n1, nB}} }
  \cup
  { Root(<< >>, Undefined, ServicesAround(def, {}), top, << >>) :
      def \in VolumeDefs, top \in TopVolumesVals }
  \cup
  { Root(pre, Undefined, ServicesAround(def, others), Obj(<< >>), << >>) :
      def \in MixedDefs, pre \in {<< >>, <<s_xfoo>>},
      others \in {{}, {nB}} }

\* dependency graphs over the services a, b and c: every service has an
\* image and a depends_on sequence without repetitions; in the graphs with
\* at most one edge per service, one service may also name the undefined z
\* first
GraphDepLists == NoDupSeqsUpTo({nA, nB, nC}, MaxDeps)
SingleDepLists == {<< >>, <<nA>>, <<nB>>, <<nC>>}
GraphService(deps, withZ) ==
  Svc(Str(s_nginx), Undefined, Undefined, Undefined,
      Arr((IF withZ THEN <<Str(nZ)>> ELSE << >>)
          \o [i \in 1..Len(deps) |-> Str(deps[i])]),
      Undefined, Undefined, Undefined)
GraphDoc(da, db, dc, zAt) ==
  Root(<< >>, Undefined,
       Obj(<< <<nA, GraphService(da, zAt = nA)>>,
              <<nB, GraphService(db, zAt = nB)>>,
              <<nC, GraphService(dc, zAt = nC)>> >>),
       Undefined, << >>)
GraphDocs ==
  { GraphDoc(da, db, dc, << >>) :
      da \in GraphDepLists, db \in GraphDepLists, dc \in GraphDepLists }
  \cup
  { GraphDoc(da, db, dc, zAt) :
      da \in SingleDepLists, db \in SingleDepLists, dc \in SingleDepLists,
      zAt \in {nA, nB, nC} }

\* three services, each fine, no mapping, without image or build, or
\* defective in every respect at once
BadService ==
  Svc(Undefined, Undefined, Str(<<"s","o","m","e","t","i","m","e","s">>),
      Arr(<<Str(<<"a","b","c",":","8","0">>)>>), Arr(<<Str(nZ), Str(nA)>>),
      Str(nA), Arr(<<Str(s_data)>>), Num(1))
OrderDefs ==
  { FineService, Null, BadService,
    Svc(Undefined, Undefined, Undefined, Undefined, Arr(<<Str(nB)>>),
        Undefined, Undefined, Undefined) }
OrderDocs ==
  { Root(pre, ver, Obj(<< <<n1, d1>>, <<nA, da>>, <<nB, db>> >>), Obj(<< >>), << >>) :
      pre \in {<< >>, <<s_xfoo>>}, ver \in {Undefined, Str(<<"3">>)},
      d1 \in OrderDefs, da \in OrderDefs, db \in OrderDefs }

Documents ==
  NonMappingRoots \cup TopLevelDocs \cup FieldDocs \cup GraphDocs \cup OrderDocs

Inputs ==
  {Parsed(d) : d \in Documents} \cup {Unparsable(e) : e \in ParseErrors}

(***************************************************************************)
(* The chmod calculator (src/components/ChmodCalculator.tsx).  A PermSet   *)
(* is a record of three booleans, Perms one PermSet for each role.         *)
(***************************************************************************)
Roles == <<"owner", "group", "other">>
PermNames == {"read", "write", "execute"}
SpecialKeys == {"setuid", "setgid", "sticky"}

\* lines 7-11
defaultPerms ==
  [owner |-> [read |-> TRUE, write |-> TRUE, execute |-> TRUE],
   group |-> [read |-> TRUE, write |-> FALSE, execute |-> TRUE],
   other |-> [read |-> TRUE, write |-> FALSE, execute |-> TRUE]]

\* lines 13-22: the octal strings of the preset buttons
presets ==
  { <<"7","5","5">>, <<"6","4","4">>, <<"7","0","0">>, <<"6","0","0">>,
    <<"7","7","7">>, <<"6","6","6">>, <<"7","5","0">>, <<"6","4","0">> }

\* parseInt(c, 10) for one decimal digit c
ParseDigit(c) == CHOOSE n \in 0..9 : DigitsOf(n) = <<c>>

\* n & b for a single bit b of a 3-bit number n, as a boolean (!!(n & b))
HasBit(n, b) == (n \div b) % 2 = 1

\* lines 28-30
toBits(n) == [read |-> HasBit(n, 4), write |-> HasBit(n, 2), execute |-> HasBit(n, 1)]

\* lines 24-32: octal[i] || '0' reads "0" for a missing character
octalToPerms(octal) ==
  LET at(i) == IF i <= Len(octal) THEN octal[i] ELSE "0"
  IN [owner |-> toBits(ParseDigit(at(1))),
      group |-> toBits(ParseDigit(at(2))),
      other |-> toBits(ParseDigit(at(3)))]

\* lines 34-36
permsToOctal(p) ==
  (IF p.read THEN 4 ELSE 0) + (IF p.write THEN 2 ELSE 0) + (IF p.execute THEN 1 ELSE 0)

\* Math.max
MathMax(a, b) == IF a >= b THEN a ELSE b

\* lines 253-255: the text shown under "For files (666)"
FileUmaskText(perms) ==
  NumberToString(MathMax(0, 6 - permsToOctal(perms.owner)))
    \o NumberToString(MathMax(0, 6 - permsToOctal(perms.group)))
    \o NumberToString(MathMax(0, 6 - permsToOctal(perms.other)))

\* lines 261-263: the text shown under "For directories (777)"
DirUmaskText(perms) ==
  NumberToString(7 - permsToOctal(perms.owner))
    \o NumberToString(7 - permsToOctal(perms.group))
    \o NumberToString(7 - permsToOctal(perms.other))

\* what the component holds and shows for given perms and special bits
\* (lines 73-74, 245-268)
ChmodRender(perms, special) ==
  [perms |-> perms, special |-> special,
   fileUmask |-> FileUmaskText(perms), dirUmask |-> DirUmaskText(perms)]

\* lines 73-74: the state of the component when it mounts
ChmodMounted ==
  ChmodRender(defaultPerms, [setuid |-> FALSE, setgid |-> FALSE, sticky |-> FALSE])

(***************************************************************************)
(* The cron generator (src/components/ChmodCalculator.tsx, from line 274). *)
(* Numbers that may be NaN are <<"number", n>> or NaN; a Date is the       *)
(* record of the fields getNextExecutions reads from it.                   *)
(***************************************************************************)
NaN == <<"NaN", 0>>

\* a <= b, a >= b, a === b and a + b on numbers that may be NaN
NumLe(a, b) == a[1] = "number" /\ b[1] = "number" /\ a[2] <= b[2]
NumGe(a, b) == NumLe(b, a)
NumEq(a, b) == a[1] = "number" /\ b[1] = "number" /\ a[2] = b[2]
NumAdd(a, b) == IF a[1] = "number" /\ b[1] = "number" THEN Num(a[2] + b[2]) ELSE NaN

DecimalDigits == {"0","1","2","3","4","5","6","7","8","9"}

RECURSIVE DigitsValue(_)
\* the value of a string of decimal digits
DigitsValue(s) ==
  IF s = << >> THEN 0
  ELSE 10 * DigitsValue(SubSeq(s, 1, Len(s) - 1)) + ParseDigit(s[Len(s)])

\* the longest prefix of s made of decimal digits
DigitPrefix(s) ==
  LET stops == {i \in 1..Len(s) : s[i] \notin DecimalDigits}
      n == IF stops = {} THEN Len(s) ELSE (CHOOSE i \in stops : \A j \in stops : i <= j) - 1
  IN SubSeq(s, 1, n)

\* parseInt(s, 10): an optional sign, then the digits s starts with; NaN
\* when there are none (the texts modelled hold no white space here)
ParseInt(s) ==
  LET signed == Len(s) > 0 /\ s[1] \in {"+", "-"}
      body == IF signed THEN SubSeq(s, 2, Len(s)) ELSE s
      digits == DigitPrefix(body)
  IN IF digits = << >> THEN NaN
     ELSE IF signed /\ s[1] = "-" THEN Num(0 - DigitsValue(digits))
     ELSE Num(DigitsValue(digits))

\* Number(s) for a text over digits, letters, '*', '/' and '-': 0 for the
\* empty string, the value of a string of digits, else NaN
ToNumber(s) ==
  IF \A i \in 1..Len(s) : s[i] \in DecimalDigits THEN Num(DigitsValue(s)) ELSE NaN

RECURSIVE SplitOn(_, _)
\* s.split(c) for a separator of one character
SplitOn(s, c) ==
  LET hits == {i \in 1..Len(s) : s[i] = c}
  IN IF hits = {} THEN <<s>>
     ELSE LET k == CHOOSE i \in hits : \A j \in hits : i <= j
          IN <<SubSeq(s, 1, k - 1)>> \o SplitOn(SubSeq(s, k + 1, Len(s)), c)

\* s.trim().split(/\s+/), the white space of the texts being the blank:
\* the words of s, and [''] when s has none
TrimSplit(s) ==
  LET words == SelectSeq(SplitOn(s, " "), LAMBDA w : w # << >>)
  IN IF words = << >> THEN << << >> >> ELSE words

\* the days of a month of a year that is no leap year
DaysIn(mon) == IF mon \in {4, 6, 9, 11} THEN 30 ELSE IF mon = 2 THEN 28 ELSE 31

\* line 384: d.setMinutes(d.getMinutes() + 1), on the fields read at
\* lines 369-373
AddMinute(d) ==
  IF d.min < 59 THEN [d EXCEPT !.min = @ + 1]
  ELSE IF d.hr < 23 THEN [d EXCEPT !.min = 0, !.hr = @ + 1]
  ELSE IF d.dom < DaysIn(d.mon)
    THEN [d EXCEPT !.min = 0, !.hr = 0, !.dom = @ + 1, !.dow = (@ + 1) % 7]
  ELSE [d EXCEPT !.min = 0, !.hr = 0, !.dom = 1, !.dow = (@ + 1) % 7,
                 !.mon = IF @ = 12 THEN 1 ELSE @ + 1]

\* lines 369-381: the value, the lowest and the highest value of the k-th
\* field of the expression
FieldValue(d, k) == <<d.min, d.hr, d.dom, d.mon, d.dow>>[k]
FieldMin(k) == <<0, 0, 1, 1, 0>>[k]
FieldMax(k) == <<59, 23, 31, 12, 6>>[k]

\* the expressions typed or chosen
CronExpressions ==
  { <<"*", " ", "*", " ", "*", " ", "*", " ", "*">>,
    <<"*", "/", "5", " ", "*", " ", "*", " ", "*", " ", "*">>,
    <<"0", " ", "9", " ", "*", " ", "*", " ", "1", "-", "5">>,
    <<"0", " ", "*", "/", "6", " ", "*", " ", "*", " ", "*">>,
    <<"0", " ", "0", " ", "1", " ", "1", " ", "*">>,
    <<"0", ",", "5", "9", " ", "*", " ", "*", " ", "*", " ", "*">>,
    <<"1", "-", "3", "/", "2", " ", "*", " ", "*", " ", "*", " ", "*">>,
    <<"5", "8", "/", "2", "0", " ", "2", "3", " ", "*", " ", "*", " ", "*">>,
    <<" ", "*", " ", "*", " ", "*", " ", "*", " ", "*", " ">>,
    <<"*", "/", "0", " ", "*", " ", "*", " ", "*", " ", "*">>,
    <<"*", " ", "*", " ", "*", " ", "*", " ", "2", "-", "4", "/", "0">>,
    <<"*", "/", "x", " ", "*", " ", "*", " ", "*", " ", "*">>,
    <<"x", " ", "*", " ", "*", " ", "*", " ", "*">>,
    <<"/", "5", " ", "*", " ", "*", " ", "*", " ", "*">>,
    <<"a", "-", "b", "/", "2", " ", "*", " ", "*", " ", "*", " ", "*">>,
    <<"*", " ", "*", " ", "*">>,
    << >> }

\* the count asked for: the component asks for 10 (line 441)
CronCounts == {1, 10}

\* the clock when the function is called
CronNows ==
  { [min |-> 58, hr |-> 8, dom |-> 15, mon |-> 6, dow |-> 1],
    [min |-> 59, hr |-> 23, dom |-> 31, mon |-> 12, dow |-> 4] }

\* the minute steps of one call that are followed
MaxMinutes == 3

\* the locals of getNextExecutions and of the matchesField call in progress
CronCall(expression, count, now) ==
  [pc |-> "getNextExecutions", expression |-> expression, count |-> count,
   now |-> now, parts |-> << >>, dates |-> << >>, current |-> now,
   iterations |-> 0, fieldIdx |-> 1, partList |-> << >>, partIdx |-> 1,
   i |-> Num(0), end |-> Num(0), step |-> Num(0)]

\* the cron generator while its page is not shown
CronUnmounted ==
  [CronCall(<< >>, 0, [min |-> 0, hr |-> 0, dom |-> 1, mon |-> 1, dow |-> 0])
     EXCEPT !.pc = "unmounted"]

(***************************************************************************)
(* The TOML / JSON / YAML converter (part_001).  A text is known by what   *)
(* the three libraries make of it: the empty text, a text no library       *)
(* reads, a sample, or the text serialize writes for a value in a format.  *)
(***************************************************************************)
\* line 5
Formats == {"toml", "json", "yaml"}

\* the values of the texts: what the TOML sample and what the JSON and the
\* YAML sample hold (the latter two hold the same), the empty table, a
\* number, a string and null
SampleTomlData == Obj(<< <<"package", Str("my-project")>>, <<"profile", Num(3)>> >>)
SampleJsonData == Obj(<< <<"package", Str("my-project")>> >>)
EmptyTable == Obj(<< >>)
ConvData == {SampleTomlData, SampleJsonData, EmptyTable, Num(1), Str("s"), Null}

EmptyText == [kind |-> "empty", format |-> "none", data |-> Undefined]
GarbageText == [kind |-> "garbage", format |-> "none", data |-> Undefined]

\* lines 7-46
samples ==
  [f \in Formats |->
     [kind |-> "sample", format |-> f,
      data |-> IF f = "toml" THEN SampleTomlData ELSE SampleJsonData]]

\* the text a library writes for a value: TOML.stringify writes the empty
\* text for the empty table
WrittenText(data, f) ==
  IF f = "toml" /\ data = EmptyTable THEN EmptyText
  ELSE [kind |-> "written", format |-> f, data |-> data]

\* the texts typed into the input
ConvTexts ==
  {EmptyText, GarbageText} \cup {samples[f] : f \in Formats}
    \cup {WrittenText(d, f) : d \in ConvData, f \in {"json", "yaml"}}
    \cup {WrittenText(d, "toml") : d \in {SampleTomlData, SampleJsonData}}

\* the outcome of a library call: a value returned or an Error thrown
Returned(v) == [ok |-> TRUE, value |-> v, message |-> ""]
Threw(m) == [ok |-> FALSE, value |-> Undefined, message |-> m]

\* lines 58-64: parse(input, format), by the outcomes the library can give.
\* A text is read in its own format as the value it was written for; YAML
\* reads every JSON text; JSON reads the YAML texts of the empty table, of a
\* number and of null ('{}', '1', 'null' and a line end); the empty text is
\* the empty table for TOML, null for YAML and an error for JSON; a TOML
\* text is for YAML an error or a plain string; everything else throws.
ParseOutcomes(text, format) ==
  CASE text.kind = "garbage" -> {Threw(format)}
    [] text.kind = "empty" ->
         IF format = "toml" THEN {Returned(EmptyTable)}
         ELSE IF format = "yaml" THEN {Returned(Null)}
         ELSE {Threw(format)}
    [] OTHER ->
         IF text.format = format THEN {Returned(text.data)}
         ELSE IF text.format = "json" /\ format = "yaml" THEN {Returned(text.data)}
         ELSE IF text.format = "yaml" /\ format = "json"
                 /\ text.data \in {EmptyTable, Num(1), Null}
           THEN {Returned(text.data)}
         ELSE IF text.format = "toml" /\ format = "yaml"
           THEN {Threw(format), Returned(Str("s"))}
         ELSE {Threw(format)}

\* lines 66-72: serialize(data, format); TOML.stringify throws a TypeError
\* for what is not a table
SerializeOutcome(data, format) ==
  IF format = "toml" /\ data[1] # "object" THEN Threw("stringify")
  ELSE Returned(WrittenText(data, format))

\* lines 98-106: the { output, error } the useMemo can compute
Conversions(input, inputFormat, outputFormat) ==
  { IF ~p.ok THEN [output |-> EmptyText, error |-> Str(p.message)]
    ELSE LET s == SerializeOutcome(p.value, outputFormat)
         IN IF s.ok THEN [output |-> s.value, error |-> Null]
            ELSE [output |-> EmptyText, error |-> Str(s.message)]
    : p \in ParseOutcomes(input, inputFormat) }

\* the first character of the trimmed text is '{' or '[' (line 50)
StartsWithBracket(text) ==
  \/ text.kind = "garbage"
  \/ text.kind = "sample" /\ text.format \in {"toml", "json"}
  \/ text.kind = "written" /\ text.format = "toml"
  \/ text.kind = "written" /\ text.format = "json" /\ text.data[1] = "object"
  \/ text.kind = "written" /\ text.format = "yaml" /\ text.data = EmptyTable

\* lines 48-56: detectFormat(input), by the formats it can return
DetectedFormats(text) ==
  IF StartsWithBracket(text) /\ \E p \in ParseOutcomes(text, "json") : p.ok
    THEN {"json"}
  ELSE IF \E p \in ParseOutcomes(text, "toml") : p.ok THEN {"toml"}
  ELSE { IF p.ok /\ TypeOf(p.value) = "object" THEN "yaml" ELSE "toml"
         : p \in ParseOutcomes(text, "yaml") }

\* ToBoolean of a text: only the empty string is falsy
TextTruthy(text) == text.kind # "empty"

\* line 114: the guard of handleSwap, taken for every call
SwapAllowed_Always(output, error) == TRUE

\* line 114: output && !error
SwapAllowed(output, error) == TextTruthy(output) /\ ~Truthy(error)

\* lines 94-106: the component after a handler has run and it has rendered
\* again; handler names the handler, for the record
ConvRendered(input, inputFormat, outputFormat, handler) ==
  { [input |-> input, inputFormat |-> inputFormat, outputFormat |-> outputFormat,
     output |-> c.output, error |-> c.error, handler |-> handler]
    : c \in Conversions(input, inputFormat, outputFormat) }

\* line 106: the same with the memo kept when no dependency has changed
ConvRerendered(old, input, inputFormat, outputFormat, handler) ==
  IF <<input, inputFormat, outputFormat>> = <<old.input, old.inputFormat, old.outputFormat>>
    THEN {[old EXCEPT !.handler = handler]}
    ELSE ConvRendered(input, inputFormat, outputFormat, handler)

\* lines 94-96: the states the component can mount in
ConvMounted == ConvRendered(samples["toml"], "toml", "json", "mount")

\* the converter while its page is not shown
ConvUnmounted ==
  [input |-> EmptyText, inputFormat |-> "toml", outputFormat |-> "json",
   output |-> EmptyText, error |-> Null, handler |-> "unmounted"]

(***************************************************************************)
(* State.  input is the text of the editor, given by what YAML.parse does  *)
(* with it.  doc, errors, svcIdx, visited, inStack, stack, arg, ret and    *)
(* topIdx are the locals of one validate call and of its hasCycle frames;  *)
(* thrown is the exception in flight; yamlError to banner are the values   *)
(* the component derives for rendering.  Two history variables record what *)
(* has happened: history lists the validate calls that have ended, each    *)
(* with its document and its outcome, and reportedBy holds, for the call   *)
(* in progress, which top-level hasCycle call pushed which cycle error.    *)
(* chmod is the state of the chmod calculator with the texts it shows,      *)
(* cron the locals of a getNextExecutions call of the cron generator, conv *)
(* the state of the converter with the output and the error it shows.      *)
(***************************************************************************)
VARIABLES input, pc, doc, errors, svcIdx, visited, inStack, stack, arg, ret,
          topIdx, thrown, yamlError, validationErrors, errorCount,
          warningCount, isValid, banner, history, reportedBy, chmod, cron, conv

vars == <<input, pc, doc, errors, svcIdx, visited, inStack, stack, arg, ret,
          topIdx, thrown, yamlError, validationErrors, errorCount,
          warningCount, isValid, banner, history, reportedBy, chmod, cron, conv>>

validateVars == <<doc, errors, svcIdx, visited, inStack, stack, arg, ret, topIdx>>
cycleVars == <<visited, inStack, stack, arg, ret, topIdx>>
uiVars == <<yamlError, validationErrors, errorCount, warningCount, isValid, banner>>
historyVars == <<history, reportedBy>>
toolVars == <<chmod, cron, conv>>

\* root.services and what validate derives from it (lines 65-66)
Services == Get(doc, k_services)
ServiceEntries == Entries(Services)
ServiceNameSeq == Keys(Services)
ServiceNames == {ServiceNameSeq[i] : i \in 1..Len(ServiceNameSeq)}

Init ==
  /\ input \in Inputs
  /\ pc = "useMemo"
  /\ doc = Undefined
  /\ errors = << >>
  /\ svcIdx = 1
  /\ visited = {}
  /\ inStack = {}
  /\ stack = << >>
  /\ arg = << >>
  /\ ret = FALSE
  /\ topIdx = 1
  /\ thrown = Undefined
  /\ yamlError = Null
  /\ validationErrors = << >>
  /\ errorCount = 0
  /\ warningCount = 0
  /\ isValid = FALSE
  /\ banner = "none"
  /\ history = << >>
  /\ reportedBy = {}
  /\ chmod = ChmodMounted
  /\ cron = CronUnmounted
  /\ conv = ConvUnmounted
  /\ conv = ConvUnmounted

\* line 349: YAML.parse(input) returns the document or throws; on success
\* validate(doc) is entered with a fresh errors list (line 29)
Parse ==
  /\ pc = "useMemo"
  /\ IF input.parses
     THEN /\ doc' = input.doc
          /\ pc' = "root"
          /\ UNCHANGED thrown
     ELSE /\ thrown' = input.error
          /\ pc' = "catch"
          /\ UNCHANGED doc
  /\ errors' = NewErrorList(errors)
  /\ UNCHANGED <<toolVars, input, svcIdx, cycleVars, uiVars, historyVars>>

\* lines 31-34
CheckRoot ==
  /\ pc = "root"
  /\ IF RootIsNotMapping(doc)
     THEN /\ errors' = Append(errors, RootError)
          /\ pc' = "return"
     ELSE /\ pc' = "topLevel"
          /\ UNCHANGED errors
  /\ UNCHANGED <<toolVars, input, doc, svcIdx, cycleVars, thrown, uiVars, historyVars>>

\* lines 38-52
CheckTopLevel ==
  /\ pc = "topLevel"
  /\ errors' = errors \o TopLevelKeyWarnings(doc) \o VersionWarnings(doc)
  /\ pc' = "services"
  /\ UNCHANGED <<toolVars, input, doc, svcIdx, cycleVars, thrown, uiVars, historyVars>>

\* lines 54-66
CheckServices ==
  /\ pc = "services"
  /\ IF ServicesMissing(doc)
     THEN /\ errors' = Append(errors, MissingServicesError)
          /\ pc' = "return"
     ELSE IF ServicesNotObject(doc)
     THEN /\ errors' = Append(errors, ServicesShapeError)
          /\ pc' = "return"
     ELSE /\ pc' = "serviceLoop"
          /\ UNCHANGED errors
  /\ svcIdx' = 1
  /\ UNCHANGED <<toolVars, input, doc, cycleVars, thrown, uiVars, historyVars>>

\* what one iteration of the loop of lines 68-172 pushes for a mapping def,
\* up to and including the depends_on check
ServiceDiagnosticsHead(name, svc) ==
  ImageBuildErrors(name, svc) \o UnknownKeyWarnings(name, svc)

\* the port check moved before the restart check
ServiceDiagnostics_PortsFirst(root, name, svc, serviceNames) ==
  ServiceDiagnosticsHead(name, svc)
  \o PortWarnings(name, svc)
  \o RestartErrors(name, svc)
  \o DependsOnErrors(name, svc, serviceNames)
  \o EnvironmentErrors(name, svc)
  \o VolumeWarnings(root, name, svc)

ServiceDiagnostics(root, name, svc, serviceNames) ==
  ServiceDiagnosticsHead(name, svc)
  \o RestartErrors(name, svc)
  \o PortWarnings(name, svc)
  \o DependsOnErrors(name, svc, serviceNames)
  \o EnvironmentErrors(name, svc)
  \o VolumeWarnings(root, name, svc)

\* one iteration of the loop of lines 68-172, or its end, where the two
\* sets of the cycle search are created empty (lines 175-176)
ValidateService ==
  /\ pc = "serviceLoop"
  /\ IF svcIdx > Len(ServiceEntries)
     THEN /\ pc' = "cycleLoop"
          /\ visited' = {}
          /\ inStack' = {}
          /\ topIdx' = 1
          /\ reportedBy' = {}
          /\ UNCHANGED <<errors, svcIdx, thrown>>
     ELSE LET name == ServiceEntries[svcIdx][1]
              def == ServiceEntries[svcIdx][2]
          IN IF TypeOf(def) # "object" \/ def = Null
             THEN /\ errors' = Append(errors, ServiceShapeError(name))
                  /\ svcIdx' = svcIdx + 1
                  /\ UNCHANGED <<pc, thrown, visited, inStack, topIdx, reportedBy>>
             ELSE IF RestartThrows(def)
             THEN /\ errors' = errors \o ServiceDiagnosticsHead(name, def)
                  /\ thrown' = TypeErrorToPrimitive
                  /\ pc' = "catch"
                  /\ UNCHANGED <<svcIdx, visited, inStack, topIdx, reportedBy>>
             ELSE IF DepsThrow(Get(def, k_depends_on))
             THEN /\ errors' = errors \o ServiceDiagnosticsHead(name, def)
                               \o RestartErrors(name, def)
                               \o PortWarnings(name, def)
                  /\ thrown' = TypeErrorToPrimitive
                  /\ pc' = "catch"
                  /\ UNCHANGED <<svcIdx, visited, inStack, topIdx, reportedBy>>
             ELSE /\ errors' = errors
                      \o ServiceDiagnostics(doc, name, def, ServiceNames)
                  /\ svcIdx' = svcIdx + 1
                  /\ UNCHANGED <<pc, thrown, visited, inStack, topIdx, reportedBy>>
  /\ UNCHANGED <<toolVars, input, doc, stack, arg, ret, uiVars, history>>

\* lines 203-205: the next top-level hasCycle(name), or the end of the loop
\* and return errors (line 207)
CycleLoop ==
  /\ pc = "cycleLoop"
  /\ IF topIdx > Len(ServiceNameSeq)
     THEN /\ pc' = "return"
          /\ UNCHANGED arg
     ELSE /\ arg' = ServiceNameSeq[topIdx]
          /\ pc' = "hasCycle"
  /\ UNCHANGED <<toolVars, input, doc, errors, svcIdx, visited, inStack, stack, ret,
                 topIdx, thrown, uiVars, historyVars>>

\* lines 177-188: entry of hasCycle(arg)
HasCycleEnter ==
  /\ pc = "hasCycle"
  /\ IF arg \in inStack
     THEN /\ ret' = TRUE
          /\ pc' = "hasCycleReturn"
          /\ UNCHANGED <<visited, inStack, stack>>
     ELSE IF AlreadyVisited(arg, visited)
     THEN /\ ret' = FALSE
          /\ pc' = "hasCycleReturn"
          /\ UNCHANGED <<visited, inStack, stack>>
     ELSE /\ visited' = visited \cup {arg}
          /\ inStack' = inStack \cup {arg}
          /\ stack' = Append(stack,
               [node |-> arg, deps |-> CycleDeps(Services, arg), i |-> 1])
          /\ pc' = "hasCycleDeps"
          /\ UNCHANGED ret
  /\ UNCHANGED <<toolVars, input, doc, errors, svcIdx, arg, topIdx, thrown, uiVars,
                 historyVars>>

\* lines 189-190 and 200-201: the next dep of the innermost frame; a dep that
\* is no service name is skipped, a service name is searched
HasCycleDeps ==
  /\ pc = "hasCycleDeps"
  /\ LET f == stack[Len(stack)]
     IN IF f.i > Len(f.deps)
        THEN /\ inStack' = StackDelete(inStack, f.node)
             /\ stack' = SubSeq(stack, 1, Len(stack) - 1)
             /\ ret' = FALSE
             /\ pc' = "hasCycleReturn"
             /\ UNCHANGED arg
        ELSE IF IsServiceName(f.deps[f.i], ServiceNames)
        THEN /\ arg' = f.deps[f.i]
             /\ pc' = "hasCycle"
             /\ UNCHANGED <<inStack, stack, ret>>
        ELSE /\ stack' = [stack EXCEPT ![Len(stack)].i = f.i + 1]
             /\ UNCHANGED <<inStack, arg, ret, pc>>
  /\ UNCHANGED <<toolVars, input, doc, errors, svcIdx, visited, topIdx, thrown, uiVars,
                 historyVars>>

\* a hasCycle call has returned ret: to the loop of lines 203-205, or into
\* the condition of line 190 of the calling frame (lines 191-197)
HasCycleReturn ==
  /\ pc = "hasCycleReturn"
  /\ IF Len(stack) = 0
     THEN /\ topIdx' = topIdx + 1
          /\ pc' = "cycleLoop"
          /\ UNCHANGED <<errors, inStack, stack, ret, reportedBy>>
     ELSE LET f == stack[Len(stack)]
          IN IF ret
             THEN /\ errors' = Append(errors, CycleError(f.node, f.deps[f.i]))
                  /\ reportedBy' = reportedBy \cup
                       {[top |-> topIdx, node |-> f.node, dep |-> f.deps[f.i]]}
                  /\ inStack' = StackDeleteOnCycle(inStack, f.node)
                  /\ stack' = SubSeq(stack, 1, Len(stack) - 1)
                  /\ ret' = TRUE
                  /\ UNCHANGED <<pc, topIdx>>
             ELSE /\ stack' = [stack EXCEPT ![Len(stack)].i = f.i + 1]
                  /\ pc' = "hasCycleDeps"
                  /\ UNCHANGED <<errors, inStack, ret, topIdx, reportedBy>>
  /\ UNCHANGED <<toolVars, input, doc, svcIdx, visited, arg, thrown, uiVars, history>>

\* line 350: validate returned
MemoReturn ==
  /\ pc = "return"
  /\ yamlError' = Null
  /\ validationErrors' = errors
  /\ pc' = "render"
  /\ history' = Append(history, [doc |-> doc, threw |-> FALSE, result |-> errors])
  /\ UNCHANGED <<toolVars, input, validateVars, thrown, errorCount, warningCount,
                 isValid, banner, reportedBy>>

\* lines 351-354: whatever the try block threw
MemoCatch ==
  /\ pc = "catch"
  /\ yamlError' = IF thrown.isError THEN Str(thrown.message)
                  ELSE Str(DefaultParseMessage)
  /\ validationErrors' = << >>
  /\ pc' = "render"
  /\ history' = IF input.parses
                THEN Append(history, [doc |-> doc, threw |-> TRUE, result |-> << >>])
                ELSE history
  /\ UNCHANGED <<toolVars, input, validateVars, thrown, errorCount, warningCount,
                 isValid, banner, reportedBy>>

\* validationErrors.filter(e => e.severity === sev).length
CountSeverity(list, sev) ==
  Cardinality({i \in 1..Len(list) : list[i].severity = sev})

\* line 359
IsValid(yErr, nErrors) == ~Truthy(yErr) /\ nErrors = 0

\* lines 399-409: the status banner
Banner(yErr, valid) ==
  IF Truthy(yErr) THEN "YAML Error" ELSE IF valid THEN "Valid" ELSE "counts"

\* lines 357-359 and the banner
Render ==
  /\ pc = "render"
  /\ errorCount' = CountSeverity(validationErrors, "error")
  /\ warningCount' = CountSeverity(validationErrors, "warning")
  /\ isValid' = IsValid(yamlError, CountSeverity(validationErrors, "error"))
  /\ banner' = Banner(yamlError,
                 IsValid(yamlError, CountSeverity(validationErrors, "error")))
  /\ pc' = "rendered"
  /\ UNCHANGED <<toolVars, input, validateVars, thrown, yamlError, validationErrors,
                 historyVars>>

Next ==
  \/ Parse
  \/ CheckRoot
  \/ CheckTopLevel
  \/ CheckServices
  \/ ValidateService
  \/ CycleLoop
  \/ HasCycleEnter
  \/ HasCycleDeps
  \/ HasCycleReturn
  \/ MemoReturn
  \/ MemoCatch
  \/ Render

Spec == Init /\ [][Next]_vars

(***************************************************************************)
(* The editor in use: after a rendering the text is replaced (a template   *)
(* button, line 372, or typing, line 389), the component renders again and *)
(* useMemo calls validate anew.  The texts are a few of Inputs, and at     *)
(* most MaxCalls validate calls are followed.                              *)
(***************************************************************************)
MaxCalls == 3

RerunInputs ==
  { Parsed(Null),
    Parsed(Root(<<s_xfoo>>, Str(<<"3">>), Obj(<< <<nA, FineService>> >>),
                Undefined, << >>)),
    Parsed(GraphDoc(<<nB>>, <<nA>>, << >>, << >>)),
    Parsed(GraphDoc(<<nB>>, <<nC>>, <<nB>>, << >>)),
    Parsed(GraphDoc(<< >>, <<nA>>, << >>, nB)),
    Parsed(Root(<< >>, Undefined,
                ServicesAround(
                  Svc(Str(s_nginx), Undefined, ThrowingObject, Undefined,
                      Undefined, Undefined, Undefined, Undefined), {}),
                Undefined, << >>)),
    Unparsable([isError |-> FALSE, message |-> << >>]) }

InitRerun == Init /\ input \in RerunInputs

\* lines 372 and 389: setInput(text), which schedules the next rendering
SetInput ==
  /\ pc = "rendered"
  /\ Len(history) < MaxCalls
  /\ input' \in RerunInputs
  /\ pc' = "useMemo"
  /\ UNCHANGED <<toolVars, validateVars, thrown, uiVars, historyVars>>

NextRerun ==
  \/ Parse
  \/ CheckRoot
  \/ CheckTopLevel
  \/ CheckServices
  \/ ValidateService
  \/ CycleLoop
  \/ HasCycleEnter
  \/ HasCycleDeps
  \/ HasCycleReturn
  \/ MemoReturn
  \/ MemoCatch
  \/ Render
  \/ SetInput

SpecRerun == InitRerun /\ [][NextRerun]_vars

(***************************************************************************)
(* Properties.  validate has returned its list when pc = "return"; the     *)
(* list is errors.                                                         *)
(***************************************************************************)
\* the entries of root.services of the document under validation
DeclaredServices == Entries(Get(doc, k_services))

HasMessage(d, head) == d.message[1] = head

\* the indices of the diagnostics of the result with a given first message
\* part and a given path
Reported(head, path) ==
  {i \in 1..Len(errors) : HasMessage(errors[i], head) /\ errors[i].path = path}

\* the warnings of the checks on the root's own keys
IsTopLevelWarning(d) ==
  /\ d.severity = "warning"
  /\ \/ HasMessage(d, "Unknown top-level key \"")
     \/ HasMessage(d, "The \"version\" field is obsolete in Docker Compose v2+. It can be safely removed.")

IsCycleError(d) ==
  d.severity = "error" /\ HasMessage(d, "Circular dependency detected involving \"")

\* the names a service definition declares in depends_on: the stringified
\* elements of a sequence, the keys of a mapping, nothing otherwise
DeclaredDeps(def) ==
  IF def[1] = "object" /\ Truthy(Get(def, k_depends_on))
  THEN DepsOf(Get(def, k_depends_on))
  ELSE << >>

\* the depends_on graph restricted to the defined services
GraphNodes(d) ==
  {Entries(Get(d, k_services))[i][1] : i \in 1..Len(Entries(Get(d, k_services)))}
GraphEdges(d) ==
  LET es == Entries(Get(d, k_services))
  IN {e \in GraphNodes(d) \X GraphNodes(d) :
        \E i \in 1..Len(es) :
           /\ es[i][1] = e[1]
           /\ \E j \in 1..Len(DeclaredDeps(es[i][2])) :
                 DeclaredDeps(es[i][2])[j] = e[2]}

RECURSIVE PathsUpTo(_, _)
\* the pairs joined by a path of at least one and at most n edges
PathsUpTo(E, n) ==
  IF n <= 1 THEN E
  ELSE LET R == PathsUpTo(E, n - 1)
       IN R \cup {<<x[1][1], x[2][2]>> : x \in {y \in R \X E : y[1][2] = y[2][1]}}

GraphHasCycle(d) ==
  \E n \in GraphNodes(d) :
     <<n, n>> \in PathsUpTo(GraphEdges(d), Cardinality(GraphNodes(d)))

\* validate reached the per-service loop and the cycle search
ReachedServices ==
  /\ doc[1] = "object"
  /\ Truthy(Get(doc, k_services))
  /\ Get(doc, k_services)[1] \in {"object", "array"}

\* C1: for a root that is an array, a string, a number, a boolean or null,
\* validate returns exactly one diagnostic, an error, and runs no further
\* check: control goes from the root check straight to the return.
C1_NonMappingRootOneError ==
  /\ (pc = "return" /\ doc[1] \in {"array", "string", "number", "boolean", "null"})
       => (Len(errors) = 1 /\ errors[1].severity = "error")
  /\ (input.parses /\ input.doc[1] \in {"array", "string", "number", "boolean", "null"})
       => pc \in {"useMemo", "root", "return", "render", "rendered"}

C1_Witness ==
  /\ pc = "return"
  /\ doc[1] = "array"
  /\ Len(doc[2]) > 0
  /\ Len(errors) = 1

\* C2 as claimed: for null or undefined validate returns the single error
\* of the required-key path, 'Missing required "services" key.'
C2_NullIsMissingServices ==
  (pc = "return" /\ doc \in {Null, Undefined})
    => errors = <<MissingServicesError>>

\* C2 as amended: for null or undefined validate returns the single
\* root-shape error 'Document must be a YAML mapping (object).', with no
\* path, and no exception is raised.
C2_NullIsRootError ==
  /\ (pc = "return" /\ doc \in {Null, Undefined})
       => /\ Len(errors) = 1
          /\ errors[1].severity = "error"
          /\ errors[1].message = <<"Document must be a YAML mapping (object).">>
          /\ errors[1].path = Undefined
  /\ (input.parses /\ input.doc \in {Null, Undefined}) => pc # "catch"

C2_Witness ==
  /\ pc = "return"
  /\ doc = Null
  /\ Len(errors) = 1
  /\ errors[1].message = <<"Document must be a YAML mapping (object).">>

\* the root keys outside the known top-level keys, by position
UnknownRootKeys ==
  {i \in 1..Len(Keys(doc)) :
     Keys(doc)[i] \notin
       { k_version, k_services, k_volumes,
         <<"n","e","t","w","o","r","k","s">>, <<"c","o","n","f","i","g","s">>,
         <<"s","e","c","r","e","t","s">>, <<"n","a","m","e">> }}

\* C3: for a mapping root whose services is absent or falsy the result ends
\* with the one error 'Missing required "services" key.', everything before
\* it is an unknown-top-level-key warning or the version warning, and with
\* one unknown key and no version the result is that key's warning followed
\* by the error.
C3_MissingServices ==
  (pc = "return" /\ doc[1] = "object" /\ ~Truthy(Get(doc, k_services)))
    => /\ Len(errors) >= 1
       /\ errors[Len(errors)].severity = "error"
       /\ errors[Len(errors)].message = <<"Missing required \"services\" key.">>
       /\ \A i \in 1..(Len(errors) - 1) : IsTopLevelWarning(errors[i])
       /\ (Cardinality(UnknownRootKeys) = 1 /\ Get(doc, k_version) = Undefined)
            => /\ Len(errors) = 2
               /\ HasMessage(errors[1], "Unknown top-level key \"")
               /\ \E i \in UnknownRootKeys : errors[1].path = Str(Keys(doc)[i])

C3_Witness ==
  /\ pc = "return"
  /\ doc[1] = "object"
  /\ Get(doc, k_services) = Bool(FALSE)
  /\ Get(doc, k_version) = Undefined
  /\ Len(errors) = 2
  /\ errors[1].severity = "warning"

\* C4 as claimed: for a mapping root whose services is truthy and is a
\* scalar or a sequence the result ends with the error '"services" must be
\* a mapping of service definitions.' and holds no per-service or cycle
\* diagnostic.
C4_NonMappingServicesRejected ==
  (/\ pc = "return"
   /\ doc[1] = "object"
   /\ Truthy(Get(doc, k_services))
   /\ Get(doc, k_services)[1] # "object")
    => /\ Len(errors) >= 1
       /\ errors[Len(errors)].severity = "error"
       /\ errors[Len(errors)].message =
            <<"\"services\" must be a mapping of service definitions.">>
       /\ \A i \in 1..(Len(errors) - 1) : IsTopLevelWarning(errors[i])

\* a document with nothing but services, each with an image and at most a
\* depends_on sequence of strings
PlainDependencyDoc ==
  /\ doc[1] = "object"
  /\ Len(Keys(doc)) = 1
  /\ Keys(doc)[1] = k_services
  /\ Get(doc, k_services)[1] = "object"
  /\ \A i \in 1..Len(DeclaredServices) :
        LET def == DeclaredServices[i][2]
        IN /\ def[1] = "object"
           /\ \A j \in 1..Len(Keys(def)) : Keys(def)[j] \in {k_image, k_depends_on}
           /\ Get(def, k_image)[1] = "string"
           /\ Len(Get(def, k_image)[2]) > 0
           /\ \/ Get(def, k_depends_on) = Undefined
              \/ /\ Get(def, k_depends_on)[1] = "array"
                 /\ \A j \in 1..Len(Get(def, k_depends_on)[2]) :
                       Get(def, k_depends_on)[2][j][1] = "string"

\* the depends_on entries, by service and position, that name no service
UndefinedRefs ==
  UNION { { <<s, j>> : j \in {k \in 1..Len(DeclaredDeps(DeclaredServices[s][2])) :
                              DeclaredDeps(DeclaredServices[s][2])[k] \notin GraphNodes(doc)} } :
          s \in 1..Len(DeclaredServices) }

\* C5: when the only defect of a document is one depends_on entry that
\* names no service, the result is exactly one diagnostic: the error that
\* the service depends on that name, which is not defined.
C5_OneUndefinedDependency ==
  (/\ pc = "return"
   /\ PlainDependencyDoc
   /\ Cardinality(UndefinedRefs) = 1
   /\ ~GraphHasCycle(doc))
    => \E r \in UndefinedRefs :
          LET name == DeclaredServices[r[1]][1]
              dep == DeclaredDeps(DeclaredServices[r[1]][2])[r[2]]
          IN /\ Len(errors) = 1
             /\ errors[1].severity = "error"
             /\ errors[1].message =
                  <<"Service \"", name, "\" depends on \"", dep,
                    "\", which is not defined.">>

C5_Witness ==
  /\ pc = "return"
  /\ PlainDependencyDoc
  /\ Len(DeclaredServices) = 1
  /\ DeclaredDeps(DeclaredServices[1][2]) = <<nZ>>
  /\ Len(errors) = 1

\* C6: the result holds a 'Circular dependency detected' error if and only
\* if the depends_on graph restricted to the defined services has a cycle.
C6_CycleErrorIffCycle ==
  (pc = "return" /\ ReachedServices)
    => ((\E i \in 1..Len(errors) : IsCycleError(errors[i])) <=> GraphHasCycle(doc))

C6_Witness ==
  /\ pc = "return"
  /\ ReachedServices
  /\ GraphEdges(doc) = {<<nA, nB>>, <<nB, nA>>}
  /\ \E i \in 1..Len(errors) : IsCycleError(errors[i])

\* a graph without a cycle in which a service is reached along two paths,
\* and the search reports nothing
C6_WitnessAcyclic ==
  /\ pc = "return"
  /\ GraphEdges(doc) = {<<nA, nB>>, <<nA, nC>>, <<nB, nC>>}
  /\ \A i \in 1..Len(errors) : ~IsCycleError(errors[i])

\* C7: per depends_on entry the two tests are independent: an entry equal
\* to the service's own name gives the 'depends on itself' error and no
\* 'not defined' error, an entry that names no service gives only the
\* 'not defined' error, and an entry naming another service gives neither.
C7_SelfAndUndefinedIndependent ==
  (pc = "return" /\ ReachedServices)
    => \A s \in 1..Len(DeclaredServices) :
          LET name == DeclaredServices[s][1]
              deps == DeclaredDeps(DeclaredServices[s][2])
              path == Str(k_services \o <<".">> \o name \o <<".">> \o k_depends_on)
              Times(dep) == Cardinality({j \in 1..Len(deps) : deps[j] = dep})
              selfErrors ==
                {i \in Reported("Service \"", path) :
                   errors[i].message = <<"Service \"", name, "\" depends on itself.">>}
              UndefErrors(dep) ==
                {i \in Reported("Service \"", path) :
                   errors[i].message =
                     <<"Service \"", name, "\" depends on \"", dep,
                       "\", which is not defined.">>}
          IN /\ Cardinality(selfErrors) = Times(name)
             /\ \A j \in 1..Len(deps) :
                   Cardinality(UndefErrors(deps[j])) =
                     IF deps[j] \in GraphNodes(doc) THEN 0 ELSE Times(deps[j])

C7_Witness ==
  /\ pc = "return"
  /\ ReachedServices
  /\ \E s \in 1..Len(DeclaredServices) :
        /\ DeclaredDeps(DeclaredServices[s][2]) = <<nZ, DeclaredServices[s][1]>>
        /\ \E i, j \in 1..Len(errors) :
              /\ i < j
              /\ errors[i].message =
                   <<"Service \"", DeclaredServices[s][1], "\" depends on \"", nZ,
                     "\", which is not defined.">>
              /\ errors[j].message =
                   <<"Service \"", DeclaredServices[s][1], "\" depends on itself.">>

\* C8 as claimed: the verdict is 'valid' if and only if the YAML parsed and
\* the diagnostic list holds no error.
C8_ValidIffParsedAndNoErrors ==
  pc = "rendered"
    => (isValid <=> (input.parses /\ CountSeverity(validationErrors, "error") = 0))

\* C9 as claimed: validate never raises on a parsed document.
C9_ValidateNeverThrows ==
  input.parses => pc # "catch"

\* the characters of s before its first ':'
BeforeFirstColon(s) ==
  LET colons == {i \in 1..Len(s) : s[i] = ":"}
  IN IF colons = {} THEN s
     ELSE SubSeq(s, 1, (CHOOSE i \in colons : \A j \in colons : i <= j) - 1)

\* C10: a service with a restart value gets one 'Invalid restart policy'
\* error, whose message lists the four valid policies, if the part of the
\* stringified value before its first ':' is none of no, always, on-failure
\* and unless-stopped, and no such error otherwise.
C10_RestartPolicy ==
  (pc = "return" /\ ReachedServices)
    => \A s \in 1..Len(DeclaredServices) :
          LET name == DeclaredServices[s][1]
              def == DeclaredServices[s][2]
              restart == Get(def, k_restart)
              found ==
                Reported("Invalid restart policy \"",
                  Str(k_services \o <<".">> \o name \o <<".">> \o k_restart))
          IN (def[1] = "object" /\ restart # Undefined)
               => IF BeforeFirstColon(String(restart)) \in
                       { <<"n","o">>, <<"a","l","w","a","y","s">>,
                         <<"o","n","-","f","a","i","l","u","r","e">>,
                         <<"u","n","l","e","s","s","-","s","t","o","p","p","e","d">> }
                  THEN found = {}
                  ELSE /\ Cardinality(found) = 1
                       /\ \A i \in found :
                             /\ errors[i].severity = "error"
                             /\ errors[i].message =
                                  << "Invalid restart policy \"", String(restart),
                                     "\" in \"", name, "\". Valid: ",
                                     <<"n","o">>, ", ", <<"a","l","w","a","y","s">>, ", ",
                                     <<"o","n","-","f","a","i","l","u","r","e">>, ", ",
                                     <<"u","n","l","e","s","s","-","s","t","o","p","p","e","d">>,
                                     "." >>

C10_Witness ==
  /\ pc = "return"
  /\ ReachedServices
  /\ \E s \in 1..Len(DeclaredServices) :
        /\ DeclaredServices[s][2][1] = "object"
        /\ Get(DeclaredServices[s][2], k_restart) = Str(<<"s","o","m","e","t","i","m","e","s">>)
        /\ Reported("Invalid restart policy \"",
             Str(k_services \o <<".">> \o DeclaredServices[s][1] \o <<".">> \o k_restart)) # {}

\* the port text of an entry outside a service's list of warnings: a string
\* as it stands, a number in decimal
PortText(p) == IF p[1] = "string" THEN p[2] ELSE NumberToString(p[2])

\* the positions of the characters of s that are in C
PositionsIn(s, C) == {i \in 1..Len(s) : s[i] \in C}

\* a port specification read by its shape: an optional "/protocol" of word
\* characters at the end; before it one to four runs of digits joined by
\* ":" or "-", where a "host:container" split at a ":" must leave at most
\* two runs on either side
PortShape(s) ==
  LET slashes == PositionsIn(s, {"/"})
      mainEnd == IF slashes = {} THEN Len(s)
                 ELSE (CHOOSE i \in slashes : \A j \in slashes : i <= j) - 1
      seps == {i \in 1..mainEnd : s[i] \in {":", "-"}}
      runsBefore(i) == Cardinality({j \in seps : j < i})
      runsAfter(i) == Cardinality({j \in seps : j > i})
  IN /\ slashes # {} =>
          /\ mainEnd + 1 < Len(s)
          /\ \A i \in (mainEnd + 2)..Len(s) : s[i] \in WordChars
     /\ mainEnd >= 1
     /\ \A i \in 1..mainEnd : s[i] \in DigitChars \cup {":", "-"}
     /\ s[1] \in DigitChars /\ s[mainEnd] \in DigitChars
     /\ \A i \in seps : i + 1 \notin seps
     /\ \/ Cardinality(seps) <= 1
        \/ \E i \in seps : s[i] = ":" /\ runsBefore(i) <= 1 /\ runsAfter(i) <= 1

PortEntryOffends(p) == p[1] \in {"string", "number"} /\ ~PortShape(PortText(p))

\* C11: in the result for a mapping service whose ports is a sequence, the
\* diagnostics with the path services.<name>.ports are warnings of the port
\* check and nothing else, one for each entry that is a string or a number
\* of neither port shape and none for any other entry (a mapping, a boolean,
\* null): each offending text is reported as often as it occurs; "8080:80"
\* and "808080" are never reported and every "abc:80" entry is.
C11_PortEntries ==
  (pc = "return" /\ ReachedServices) =>
    \A s \in 1..Len(DeclaredServices) :
      LET name == DeclaredServices[s][1]
          def == DeclaredServices[s][2]
          ports == Get(def, k_ports)
          atPath == {i \in 1..Len(errors) :
                       errors[i].path = Str(SvcPath(name) \o Dot \o k_ports)}
          about(text) == {i \in atPath : errors[i].message[2] = text}
          entries(text) == {j \in 1..Len(ports[2]) :
                              /\ ports[2][j][1] \in {"string", "number"}
                              /\ PortText(ports[2][j]) = text}
      IN (def[1] = "object" /\ ports[1] = "array") =>
           /\ \A i \in atPath :
                 /\ errors[i].severity = "warning"
                 /\ HasMessage(errors[i], "Unusual port format \"")
                 /\ errors[i].message[4] = name
                 /\ \E j \in 1..Len(ports[2]) :
                       /\ PortEntryOffends(ports[2][j])
                       /\ errors[i].message[2] = PortText(ports[2][j])
           /\ Cardinality(atPath)
                = Cardinality({j \in 1..Len(ports[2]) : PortEntryOffends(ports[2][j])})
           /\ \A j \in 1..Len(ports[2]) :
                 LET p == ports[2][j]
                 IN /\ PortEntryOffends(p) =>
                         Cardinality(about(PortText(p)))
                           = Cardinality(entries(PortText(p)))
                    /\ p \in {Str(<<"8","0","8","0",":","8","0">>),
                              Str(<<"8","0","8","0","8","0">>)}
                         => about(p[2]) = {}
                    /\ p = Str(<<"a","b","c",":","8","0">>)
                         => Cardinality(about(p[2])) = Cardinality(entries(p[2]))

\* a returned result for ports: ["abc:80", {target: 80}]: one warning
C11_Witness ==
  /\ pc = "return"
  /\ ReachedServices
  /\ \E s \in 1..Len(DeclaredServices) :
        /\ DeclaredServices[s][2][1] = "object"
        /\ Get(DeclaredServices[s][2], k_ports)
             = Arr(<<Str(<<"a","b","c",":","8","0">>), Obj(<< <<s_target, Num(80)>> >>)>>)
        /\ Cardinality({i \in 1..Len(errors) :
              /\ errors[i].severity = "warning"
              /\ errors[i].path = Str(SvcPath(DeclaredServices[s][1]) \o Dot \o k_ports)}) = 1

\* what JavaScript takes for false among the values of a document
JsFalsy(v) == v \in {Undefined, Null, Bool(FALSE), Num(0), Str(<< >>)}

\* C12: in the result, a service whose value is a mapping has the error
\* 'Service "<name>" must have either "image" or "build".' with the path
\* services.<name> once when its image and its build are both falsy (absent,
\* null, false, 0 or the empty string), and not at all otherwise.
C12_ImageOrBuild ==
  (pc = "return" /\ ReachedServices) =>
    \A s \in 1..Len(DeclaredServices) :
      LET name == DeclaredServices[s][1]
          def == DeclaredServices[s][2]
          found == {i \in 1..Len(errors) :
                      /\ errors[i].severity = "error"
                      /\ errors[i].message
                           = <<"Service \"", name, "\" must have either \"image\" or \"build\".">>
                      /\ errors[i].path = Str(SvcPath(name))}
      IN def[1] = "object" =>
           Cardinality(found)
             = IF JsFalsy(Get(def, k_image)) /\ JsFalsy(Get(def, k_build)) THEN 1 ELSE 0

\* a returned result for a service with image: "" and build: false, both
\* present and falsy, and the error reported
C12_Witness ==
  /\ pc = "return"
  /\ ReachedServices
  /\ \E s \in 1..Len(DeclaredServices) :
        /\ DeclaredServices[s][2][1] = "object"
        /\ Get(DeclaredServices[s][2], k_image) = Str(<< >>)
        /\ Get(DeclaredServices[s][2], k_build) = Bool(FALSE)
        /\ \E i \in 1..Len(errors) :
              errors[i].message
                = <<"Service \"", DeclaredServices[s][1], "\" must have either \"image\" or \"build\".">>

\* C13: validate is pure.  Over the validate calls of one session of the
\* editor, in any order and with other calls between them, two calls on
\* the same document end the same way and return the same sequence of
\* diagnostics; every call starts with an empty list of diagnostics, and
\* its cycle search with an empty visited set and an empty stack set.
C13_ValidateIsPure ==
  /\ \A i, j \in 1..Len(history) :
        history[i].doc = history[j].doc =>
          /\ history[i].threw = history[j].threw
          /\ history[i].result = history[j].result
  /\ pc = "root" => errors = << >>
  /\ (pc = "cycleLoop" /\ topIdx = 1) => (visited = {} /\ inStack = {})

\* three calls have ended: the first and the third on one document with a
\* dependency cycle, a call on another document with diagnostics of its own
\* between them
C13_Witness ==
  /\ Len(history) = 3
  /\ history[1].doc = history[3].doc
  /\ history[2].doc # history[1].doc
  /\ \E i \in 1..Len(history[1].result) : IsCycleError(history[1].result[i])
  /\ history[2].result # << >>
  /\ history[3].result = history[1].result

\* C14: once rendered, the status shown is fixed by whether the text parsed
\* and by the number of errors alone: a text that did not parse shows the
\* parser's error and an empty list, a parsed text with at least one error
\* shows the counts, a parsed text with no error shows that it is valid.
C14_ThreeStates ==
  pc = "rendered" =>
    /\ ~input.parses =>
         (banner = "YAML Error" /\ Truthy(yamlError) /\ validationErrors = << >>)
    /\ (input.parses /\ errorCount >= 1) => banner = "counts"
    /\ (input.parses /\ errorCount = 0) => banner = "Valid"

\* a diagnostic path at or below services.<name>
PathUnder(path, name) ==
  /\ path[1] = "string"
  /\ \/ path[2] = SvcPath(name)
     \/ /\ Len(path[2]) > Len(SvcPath(name))
        /\ SubSeq(path[2], 1, Len(SvcPath(name)) + 1) = SvcPath(name) \o Dot

\* C15: in the result, an entry of services whose value is not a mapping
\* (null, a scalar or a sequence) has exactly one diagnostic at or below
\* its path: the error 'Service "<name>" must be a mapping.' with the path
\* services.<name>.
C15_NonMappingServiceOneError ==
  (pc = "return" /\ ReachedServices) =>
    \A s \in 1..Len(DeclaredServices) :
      LET name == DeclaredServices[s][1]
          def == DeclaredServices[s][2]
          own == {i \in 1..Len(errors) : PathUnder(errors[i].path, name)}
      IN def[1] # "object" =>
           /\ Cardinality(own) = 1
           /\ \A i \in own :
                 /\ errors[i].severity = "error"
                 /\ errors[i].message = <<"Service \"", name, "\" must be a mapping.">>
                 /\ errors[i].path = Str(SvcPath(name))

\* the pairs of services joined by a path of depends_on edges
Reaches == PathsUpTo(GraphEdges(doc), Cardinality(GraphNodes(doc)))

\* C16: every cycle error has no path and names the two ends X and Y of a
\* closing edge: Y is in X's depends_on, and X and Y lie on one cycle, X
\* being reachable from Y; so no cycle error names a service that is on no
\* cycle.
C16_CycleErrorsOnClosingEdge ==
  \A i \in 1..Len(errors) :
    IsCycleError(errors[i]) =>
      LET x == errors[i].message[2]
          y == errors[i].message[4]
      IN /\ errors[i].path = Undefined
         /\ <<x, y>> \in GraphEdges(doc)
         /\ <<y, x>> \in Reaches
         /\ <<x, x>> \in Reaches
         /\ <<y, y>> \in Reaches

\* two services on one cycle: the same, or each reachable from the other
SameCycle(x, y) == x = y \/ (<<x, y>> \in Reaches /\ <<y, x>> \in Reaches)

\* a cycle can be reached from at least two starting services
CycleReachedFromSeveral ==
  \E m \in GraphNodes(doc) :
     /\ <<m, m>> \in Reaches
     /\ Cardinality({n \in GraphNodes(doc) : n = m \/ <<n, m>> \in Reaches}) >= 2

\* C17 as claimed: when a cycle can be reached from several starting
\* services, cycle errors for that cycle have been pushed by more than one
\* of the top-level hasCycle calls by the time validate returns.
C17_ReportedAgain ==
  (pc = "return" /\ ReachedServices /\ CycleReachedFromSeveral) =>
    \E r1, r2 \in reportedBy : r1.top # r2.top /\ SameCycle(r1.node, r2.node)

\* C17 as the code has it: every cycle error is pushed by one frame of one
\* top-level hasCycle call, no service is the first node of two cycle
\* errors, so that no edge is reported by two top-level calls; and a
\* top-level call on a service that an earlier search visited returns false
\* at once and pushes nothing.
C17_ReportedOnce ==
  /\ [](/\ \A r1, r2 \in reportedBy : r1.node = r2.node => r1 = r2
        /\ pc \in {"cycleLoop", "hasCycle", "hasCycleDeps", "hasCycleReturn", "return"}
             => Cardinality(reportedBy)
                  = Cardinality({i \in 1..Len(errors) : IsCycleError(errors[i])}))
  /\ [][(pc = "hasCycle" /\ stack = << >> /\ arg \in visited)
          => (errors' = errors /\ ret' = FALSE /\ pc' = "hasCycleReturn"
              /\ visited' = visited /\ stack' = << >>)]_vars

\* validate has returned for a cycle that can be reached from several
\* starting services: its errors were all pushed by the first top-level
\* call, and later top-level calls were made
C17_Witness ==
  /\ pc = "return"
  /\ ReachedServices
  /\ CycleReachedFromSeveral
  /\ Cardinality(reportedBy) >= 2
  /\ \A r \in reportedBy : r.top = 1
  /\ topIdx > 2

\* C18: at every step of the cycle search every service on the stack set
\* has been visited, the stack set holds exactly the nodes of the active
\* hasCycle frames, each once, and it is empty whenever no frame is active,
\* as after every top-level call that has returned, with or without a
\* cycle; no step removes a service from the visited set, and a frame is
\* only ever opened for a service not visited before.
C18_DfsInvariants ==
  /\ [](/\ inStack \subseteq visited
        /\ inStack = {stack[i].node : i \in 1..Len(stack)}
        /\ \A i, j \in 1..Len(stack) : stack[i].node = stack[j].node => i = j
        /\ stack = << >> => inStack = {})
  /\ [][/\ visited \subseteq visited'
        /\ Len(stack') > Len(stack) =>
             /\ stack'[Len(stack')].node \notin visited
             /\ stack'[Len(stack')].node \in visited']_vars

\* the first top-level call has returned after finding a cycle, and the
\* stack set is empty
C18_Witness ==
  /\ pc = "cycleLoop"
  /\ topIdx = 2
  /\ \E i \in 1..Len(errors) : IsCycleError(errors[i])
  /\ visited # {}
  /\ inStack = {}
  /\ stack = << >>

RECURSIVE HasCycleRun(_, _, _)
RECURSIVE HasCycleDepsRun(_, _, _, _, _)
\* lines 177-202 as one evaluation: hasCycle(node) over the services given,
\* from the search state st (visited, inStack, the errors pushed so far)
\* to the search state it leaves, with the value returned in ret
HasCycleRun(services, node, st) ==
  IF node \in st.inStack THEN [st EXCEPT !.ret = TRUE]
  ELSE IF AlreadyVisited(node, st.visited) THEN [st EXCEPT !.ret = FALSE]
  ELSE HasCycleDepsRun(services, node, CycleDeps(services, node), 1,
         [st EXCEPT !.visited = @ \cup {node}, !.inStack = @ \cup {node}])

\* lines 189-201: the loop over deps from its i-th element
HasCycleDepsRun(services, node, deps, i, st) ==
  IF i > Len(deps)
  THEN [st EXCEPT !.inStack = StackDelete(@, node), !.ret = FALSE]
  ELSE IF IsServiceName(deps[i], {Keys(services)[k] : k \in 1..Len(Keys(services))})
       THEN LET r == HasCycleRun(services, deps[i], st)
            IN IF r.ret
               THEN [r EXCEPT !.errors = Append(@, CycleError(node, deps[i])),
                              !.inStack = StackDeleteOnCycle(@, node),
                              !.ret = TRUE]
               ELSE HasCycleDepsRun(services, node, deps, i + 1, r)
       ELSE HasCycleDepsRun(services, node, deps, i + 1, st)

RECURSIVE CycleSearchRun(_, _, _)
\* lines 203-205: the top-level calls from the k-th service name on
CycleSearchRun(services, k, st) ==
  IF k > Len(Keys(services)) THEN st
  ELSE CycleSearchRun(services, k + 1, HasCycleRun(services, Keys(services)[k], st))

\* lines 175-176 and 203-205: the cycle errors validate pushes for services
CycleErrorsRun(services) ==
  CycleSearchRun(services, 1,
    [visited |-> {}, inStack |-> {}, errors |-> << >>, ret |-> FALSE]).errors

\* a services mapping with every depends_on entry that names no service
\* taken out: the elements of a sequence, the keys of a mapping
WithoutUndefinedEdges(services) ==
  LET names == {Keys(services)[k] : k \in 1..Len(Keys(services))}
      Defined(e) == String(e) \in names
      DefinedKey(p) == p[1] \in names
      strip(d) == IF d[1] = "array" THEN Arr(SelectSeq(d[2], Defined))
                  ELSE IF d[1] = "object" THEN Obj(SelectSeq(d[2], DefinedKey))
                  ELSE d
      stripDef(def) ==
        IF def[1] = "object"
        THEN Obj([i \in 1..Len(def[2]) |->
                   IF def[2][i][1] = k_depends_on
                   THEN <<k_depends_on, strip(def[2][i][2])>>
                   ELSE def[2][i]])
        ELSE def
  IN IF services[1] = "object"
     THEN Obj([i \in 1..Len(services[2]) |->
                <<services[2][i][1], stripDef(services[2][i][2])>>])
     ELSE services

\* C19: hasCycle is only ever entered for a key of services; no cycle error
\* names anything but keys of services; and the cycle errors of the result
\* are, in order, those of the same services with every depends_on entry
\* naming an undefined service removed.
C19_OnlyDefinedTargets ==
  /\ pc = "hasCycle" => arg \in ServiceNames
  /\ \A i \in 1..Len(stack) : stack[i].node \in ServiceNames
  /\ \A i \in 1..Len(errors) :
        IsCycleError(errors[i]) =>
          /\ errors[i].message[2] \in ServiceNames
          /\ errors[i].message[4] \in ServiceNames
  /\ (pc = "return" /\ ReachedServices) =>
        SelectSeq(errors, IsCycleError)
          = CycleErrorsRun(WithoutUndefinedEdges(Services))

\* validate has returned cycle errors for services of which one names the
\* undefined z before a dependency that closes a cycle
C19_Witness ==
  /\ pc = "return"
  /\ ReachedServices
  /\ nZ \notin ServiceNames
  /\ \E s \in 1..Len(DeclaredServices) :
        /\ Len(DeclaredDeps(DeclaredServices[s][2])) = 2
        /\ DeclaredDeps(DeclaredServices[s][2])[1] = nZ
        /\ \E i \in 1..Len(errors) :
              /\ IsCycleError(errors[i])
              /\ errors[i].message[2] = DeclaredServices[s][1]
  /\ WithoutUndefinedEdges(Services) # Services

\* the place of a diagnostic in the order of the checks: the warnings for
\* the root's keys, the version warning, the errors that end validate
\* early, then by service as Object.entries gives them and within a
\* service by check, then the cycle errors
DiagnosticRank(d) ==
  LET m == d.message
      at(name) == 100 * (CHOOSE s \in 1..Len(DeclaredServices) :
                            DeclaredServices[s][1] = name)
  IN IF HasMessage(d, "Unknown top-level key \"") THEN 1
     ELSE IF HasMessage(d, "The \"version\" field is obsolete in Docker Compose v2+. It can be safely removed.")
     THEN 2
     ELSE IF IsCycleError(d) THEN 10000
     ELSE IF HasMessage(d, "Service \"")
     THEN at(m[2]) + (IF m[3] = "\" must be a mapping." THEN 0
                      ELSE IF m[3] = "\" must have either \"image\" or \"build\"." THEN 1
                      ELSE 5)
     ELSE IF HasMessage(d, "Unknown key \"") THEN at(m[4]) + 2
     ELSE IF HasMessage(d, "Invalid restart policy \"") THEN at(m[4]) + 3
     ELSE IF HasMessage(d, "Unusual port format \"") THEN at(m[4]) + 4
     ELSE IF HasMessage(d, "\"environment\" in \"") THEN at(m[2]) + 6
     ELSE IF HasMessage(d, "Volume \"") THEN at(m[4]) + 7
     ELSE 3

\* C20: at every moment of a validate call the diagnostics pushed so far
\* are in the order of the checks: warnings for unknown top-level keys,
\* the version warning, then one block per service in iteration order, in
\* it image/build, unknown keys, restart, ports, depends_on, environment,
\* volumes, and last the cycle errors.  So no diagnostic of a service
\* follows a cycle error or a diagnostic of a later service.
C20_DiagnosticOrder ==
  \A i, j \in 1..Len(errors) :
    i < j => DiagnosticRank(errors[i]) <= DiagnosticRank(errors[j])

\* a result with a top-level warning, diagnostics of every per-service check
\* for one service, diagnostics for a later service, and a cycle error
C20_Witness ==
  /\ pc = "return"
  /\ ReachedServices
  /\ Len(DeclaredServices) = 3
  /\ \A c \in 1..7 : \E i \in 1..Len(errors) : DiagnosticRank(errors[i]) = 100 + c
  /\ \E i \in 1..Len(errors) : DiagnosticRank(errors[i]) \in 200..299
  /\ \E i \in 1..Len(errors) : DiagnosticRank(errors[i]) = 1
  /\ \E i \in 1..Len(errors) : DiagnosticRank(errors[i]) = 2
  /\ \E i \in 1..Len(errors) : IsCycleError(errors[i])

\* a port text of the form P[/proto] or H:C[/proto]: P, H and C each one run
\* of digits or two joined by "-", proto a word of letters and digits
StrictPortShape(s) ==
  LET slashes == PositionsIn(s, {"/"})
      mainEnd == IF slashes = {} THEN Len(s)
                 ELSE (CHOOSE i \in slashes : \A j \in slashes : i <= j) - 1
      colons == {i \in 1..mainEnd : s[i] = ":"}
      dashes == {i \in 1..mainEnd : s[i] = "-"}
  IN /\ slashes # {} =>
          /\ mainEnd + 1 < Len(s)
          /\ \A i \in (mainEnd + 2)..Len(s) : s[i] \in WordChars \ {"_"}
     /\ mainEnd >= 1
     /\ \A i \in 1..mainEnd : s[i] \in DigitChars \cup {":", "-"}
     /\ s[1] \in DigitChars /\ s[mainEnd] \in DigitChars
     /\ \A i \in colons \cup dashes : i + 1 \notin colons \cup dashes
     /\ Cardinality(colons) <= 1
     /\ colons = {} => Cardinality(dashes) <= 1
     /\ \A c \in colons :
           /\ Cardinality({d \in dashes : d < c}) <= 1
           /\ Cardinality({d \in dashes : d > c}) <= 1

\* C21: in the result, a string entry of a mapping service's ports that has
\* no warning is of the form P[/proto] or H:C[/proto]; a string with more
\* than one separator of host and container, as "1:2:3" or "1:2:3:4", has a
\* warning.
C21_AcceptedPortForms ==
  (pc = "return" /\ ReachedServices) =>
    \A s \in 1..Len(DeclaredServices) :
      LET name == DeclaredServices[s][1]
          def == DeclaredServices[s][2]
          ports == Get(def, k_ports)
          warned(text) ==
            \E i \in 1..Len(errors) :
               /\ errors[i].severity = "warning"
               /\ errors[i].path = Str(SvcPath(name) \o Dot \o k_ports)
               /\ errors[i].message[2] = text
      IN (def[1] = "object" /\ ports[1] = "array") =>
           \A j \in 1..Len(ports[2]) :
              (ports[2][j][1] = "string" /\ ~warned(ports[2][j][2]))
                => StrictPortShape(ports[2][j][2])

\* C22: in the result, for a mapping service whose volumes is a sequence,
\* a string entry v is named by 'not defined in top-level "volumes"'
\* warnings, once per occurrence, when v has no ":", starts with neither
\* "/" nor ".", the root has a volumes mapping and v is no key of it, and
\* by none otherwise; entries that are no strings are named by none.
C22_NamedVolumeWarnings ==
  (pc = "return" /\ ReachedServices) =>
    \A s \in 1..Len(DeclaredServices) :
      LET name == DeclaredServices[s][1]
          def == DeclaredServices[s][2]
          vols == Get(def, k_volumes)
          top == Get(doc, k_volumes)
          atPath == {i \in 1..Len(errors) :
                       errors[i].path = Str(SvcPath(name) \o Dot \o k_volumes)}
          flagged(v) ==
            /\ \A k \in 1..Len(v) : v[k] # ":"
            /\ (Len(v) > 0 => v[1] \notin {"/", "."})
            /\ top[1] = "object"
            /\ \A k \in 1..Len(top[2]) : top[2][k][1] # v
      IN (def[1] = "object" /\ vols[1] = "array") =>
           /\ \A j \in 1..Len(vols[2]) :
                 vols[2][j][1] = "string" =>
                   Cardinality({i \in atPath : errors[i].message[2] = vols[2][j][2]})
                     = IF flagged(vols[2][j][2])
                       THEN Cardinality({k \in 1..Len(vols[2]) : vols[2][k] = vols[2][j]})
                       ELSE 0
           /\ \A i \in atPath :
                 /\ errors[i].severity = "warning"
                 /\ \E j \in 1..Len(vols[2]) :
                       vols[2][j] = Str(errors[i].message[2])

\* the root keys validate knows
KnownRootKeys ==
  { k_version, k_services, <<"n","e","t","w","o","r","k","s">>, k_volumes,
    <<"c","o","n","f","i","g","s">>, <<"s","e","c","r","e","t","s">>,
    <<"n","a","m","e">> }

\* the keys of the root outside KnownRootKeys, in the root's order
UnknownRootKeySeq == SelectSeq(Keys(doc), LAMBDA k : k \notin KnownRootKeys)

\* C23: the result for a mapping root starts with one warning per root key
\* outside version, services, networks, volumes, configs, secrets and
\* name, each with the key as its path, in the root's order; no other
\* diagnostic is such a warning; and the version warning is in the result,
\* once, exactly when the root has the key version, whatever its value.
C23_TopLevelWarnings ==
  (pc = "return" /\ doc[1] = "object") =>
    /\ Len(errors) >= Len(UnknownRootKeySeq)
    /\ \A i \in 1..Len(UnknownRootKeySeq) :
          /\ errors[i].severity = "warning"
          /\ errors[i].message = <<"Unknown top-level key \"", UnknownRootKeySeq[i], "\".">>
          /\ errors[i].path = Str(UnknownRootKeySeq[i])
    /\ \A i \in 1..Len(errors) :
          HasMessage(errors[i], "Unknown top-level key \"") => i <= Len(UnknownRootKeySeq)
    /\ Cardinality({i \in 1..Len(errors) :
          /\ errors[i].severity = "warning"
          /\ HasMessage(errors[i], "The \"version\" field is obsolete in Docker Compose v2+. It can be safely removed.")})
         = IF \E k \in 1..Len(Keys(doc)) : Keys(doc)[k] = k_version THEN 1 ELSE 0

\* a result for a root with an unknown key before and one after the known
\* ones and with version: null: three warnings, then the other diagnostics
C23_Witness ==
  /\ pc = "return"
  /\ doc[1] = "object"
  /\ Len(UnknownRootKeySeq) = 2
  /\ Get(doc, k_version) = Null
  /\ Len(errors) >= 4
  /\ HasMessage(errors[3], "The \"version\" field is obsolete in Docker Compose v2+. It can be safely removed.")

\* a services mapping with every depends_on mapping written as the sequence
\* of its keys, in the order Object.keys gives them
SequenceForm(services) ==
  LET asSequence(d) ==
        IF d[1] = "object" THEN Arr([k \in 1..Len(Keys(d)) |-> Str(Keys(d)[k])])
        ELSE d
      seqDef(def) ==
        IF def[1] = "object"
        THEN Obj([i \in 1..Len(def[2]) |->
                   IF def[2][i][1] = k_depends_on
                   THEN <<k_depends_on, asSequence(def[2][i][2])>>
                   ELSE def[2][i]])
        ELSE def
  IN IF services[1] = "object"
     THEN Obj([i \in 1..Len(services[2]) |->
                <<services[2][i][1], seqDef(services[2][i][2])>>])
     ELSE services

\* C24: for every service the cycle search iterates the names the reference
\* check iterates; and the result has, for every mapping service, the
\* depends_on errors, and in all the cycle errors, that the same services
\* have with every depends_on mapping written as the sequence of its keys.
C24_SameNormalisation ==
  (pc = "return" /\ ReachedServices) =>
    /\ \A s \in 1..Len(DeclaredServices) :
          LET name == DeclaredServices[s][1]
              def == DeclaredServices[s][2]
              asSeq == Entries(SequenceForm(Services))[s][2]
          IN def[1] = "object" =>
               /\ CycleDeps(Services, name)
                    = IF Truthy(Get(def, k_depends_on))
                      THEN DepsOf(Get(def, k_depends_on)) ELSE << >>
               /\ Get(asSeq, k_depends_on)[1] \in {"object", "array"}
                    => Get(asSeq, k_depends_on)[1] = "array"
               /\ SelectSeq(errors,
                    LAMBDA d : d.path = Str(SvcPath(name) \o Dot \o k_depends_on))
                    = DependsOnErrors(name, asSeq, ServiceNames)
    /\ SelectSeq(errors, IsCycleError) = CycleErrorsRun(SequenceForm(Services))

\* a result with an undefined-reference or self-reference error and a cycle
\* error for a service whose depends_on is a mapping of several names
C24_Witness ==
  /\ pc = "return"
  /\ ReachedServices
  /\ \E s \in 1..Len(DeclaredServices) :
        /\ DeclaredServices[s][2][1] = "object"
        /\ Get(DeclaredServices[s][2], k_depends_on)[1] = "object"
        /\ Len(Keys(Get(DeclaredServices[s][2], k_depends_on))) >= 2
        /\ \E i \in 1..Len(errors) :
              errors[i].path = Str(SvcPath(DeclaredServices[s][1]) \o Dot \o k_depends_on)
        /\ \E i \in 1..Len(errors) :
              IsCycleError(errors[i]) /\ errors[i].message[2] = DeclaredServices[s][1]

\* the port entries, by service and position, that are warned about
OffendingPorts ==
  UNION { { <<s, j>> : j \in {k \in 1..Len(Get(DeclaredServices[s][2], k_ports)[2]) :
                              PortEntryOffends(Get(DeclaredServices[s][2], k_ports)[2][k])} } :
          s \in {t \in 1..Len(DeclaredServices) :
                   /\ DeclaredServices[t][2][1] = "object"
                   /\ Get(DeclaredServices[t][2], k_ports)[1] = "array"} }

\* a document whose defects can only be undefined dependencies and
\* malformed ports
PortsAndDependenciesDoc ==
  /\ doc[1] = "object"
  /\ Keys(doc) = <<k_services>>
  /\ Get(doc, k_services)[1] = "object"
  /\ \A s \in 1..Len(DeclaredServices) :
        LET def == DeclaredServices[s][2]
        IN /\ def[1] = "object"
           /\ \A j \in 1..Len(Keys(def)) : Keys(def)[j] \in {k_image, k_ports, k_depends_on}
           /\ Get(def, k_image)[1] = "string"
           /\ Len(Get(def, k_image)[2]) > 0
           /\ Get(def, k_depends_on)[1] \in {"undefined", "array"}
           /\ Get(def, k_ports)[1] \in {"undefined", "array"}
           /\ \A j \in 1..Len(DeclaredDeps(def)) :
                 DeclaredDeps(def)[j] # DeclaredServices[s][1]
  /\ ~GraphHasCycle(doc)

\* C25: diagnostics are not deduplicated.  In the result, a name that is no
\* service is reported for a service once for every place it has in the
\* service's depends_on sequence, and a malformed port text once for every
\* place it has in ports, each time with the same path; and when undefined
\* dependencies and malformed ports are all a document can have wrong, the
\* result is as long as there are such places.
C25_NoDeduplication ==
  (pc = "return" /\ ReachedServices) =>
    /\ \A s \in 1..Len(DeclaredServices) :
          LET name == DeclaredServices[s][1]
              def == DeclaredServices[s][2]
              deps == DeclaredDeps(def)
              ports == Get(def, k_ports)
          IN def[1] = "object" =>
               /\ Get(def, k_depends_on)[1] = "array" =>
                    \A j \in 1..Len(deps) :
                       deps[j] \notin ServiceNames =>
                         Cardinality({i \in 1..Len(errors) :
                            /\ errors[i].message
                                 = <<"Service \"", name, "\" depends on \"", deps[j],
                                     "\", which is not defined.">>
                            /\ errors[i].path = Str(SvcPath(name) \o Dot \o k_depends_on)})
                           = Cardinality({k \in 1..Len(deps) : deps[k] = deps[j]})
               /\ ports[1] = "array" =>
                    \A j \in 1..Len(ports[2]) :
                       PortEntryOffends(ports[2][j]) =>
                         Cardinality({i \in 1..Len(errors) :
                            /\ HasMessage(errors[i], "Unusual port format \"")
                            /\ errors[i].message[2] = PortText(ports[2][j])
                            /\ errors[i].path = Str(SvcPath(name) \o Dot \o k_ports)})
                           = Cardinality({k \in 1..Len(ports[2]) :
                                /\ PortEntryOffends(ports[2][k])
                                /\ PortText(ports[2][k]) = PortText(ports[2][j])})
    /\ PortsAndDependenciesDoc =>
         Len(errors) = Cardinality(UndefinedRefs) + Cardinality(OffendingPorts)

\* a result for depends_on: [z, z] with z undefined: the same error twice
C25_Witness ==
  /\ pc = "return"
  /\ PortsAndDependenciesDoc
  /\ \E s \in 1..Len(DeclaredServices) :
        Get(DeclaredServices[s][2], k_depends_on) = Arr(<<Str(nZ), Str(nZ)>>)
  /\ Len(errors) = 2
  /\ errors[1] = errors[2]

\* the services that depend on themselves
SelfDependent == {n \in GraphNodes(doc) : <<n, n>> \in GraphEdges(doc)}

\* C26: when the only defect of a document is that one service names itself
\* in depends_on, the result is exactly two errors: that the service depends
\* on itself, and a cycle error naming the service as both nodes.
C26_SelfEdgeTwoErrors ==
  (/\ pc = "return"
   /\ PlainDependencyDoc
   /\ UndefinedRefs = {}
   /\ Cardinality(SelfDependent) = 1
   /\ {n \in GraphNodes(doc) : <<n, n>> \in Reaches} = SelfDependent
   /\ \A s \in 1..Len(DeclaredServices) :
         \A j, k \in 1..Len(DeclaredDeps(DeclaredServices[s][2])) :
            DeclaredDeps(DeclaredServices[s][2])[j] = DeclaredDeps(DeclaredServices[s][2])[k]
              => j = k)
    => \E n \in SelfDependent :
          /\ Len(errors) = 2
          /\ errors[1].severity = "error"
          /\ errors[1].message = <<"Service \"", n, "\" depends on itself.">>
          /\ errors[2].severity = "error"
          /\ errors[2].message
               = <<"Circular dependency detected involving \"", n, "\" and \"", n, "\".">>

\* the depends_on graph is one simple cycle through all the services
SimpleCycleGraph ==
  /\ PlainDependencyDoc
  /\ UndefinedRefs = {}
  /\ \A s \in 1..Len(DeclaredServices) : Len(DeclaredDeps(DeclaredServices[s][2])) = 1
  /\ \A n, m \in GraphNodes(doc) : <<n, m>> \in Reaches

\* C27: a hasCycle call on a node on the stack returns true, and every frame
\* that gets true from a call pushes one cycle error for its own edge and
\* returns true at once, its other dependencies unexamined; so for a graph
\* that is one simple cycle of n services the result has exactly n cycle
\* errors, one per service, all pushed during the first top-level call,
\* after which the other top-level calls were made.
C27_UnwindingFrames ==
  /\ []((pc = "return" /\ ReachedServices /\ SimpleCycleGraph) =>
          /\ Cardinality({i \in 1..Len(errors) : IsCycleError(errors[i])})
               = Len(DeclaredServices)
          /\ Cardinality(reportedBy) = Len(DeclaredServices)
          /\ \A r \in reportedBy : r.top = 1
          /\ \A n \in GraphNodes(doc) : \E r \in reportedBy : r.node = n
          /\ topIdx = Len(DeclaredServices) + 1)
  /\ [][/\ (pc = "hasCycle" /\ arg \in inStack)
             => (ret' = TRUE /\ pc' = "hasCycleReturn" /\ errors' = errors)
        /\ (pc = "hasCycleReturn" /\ ret /\ stack # << >>)
             => /\ errors' = Append(errors,
                     [severity |-> "error",
                      message |-> <<"Circular dependency detected involving \"",
                                    stack[Len(stack)].node, "\" and \"",
                                    stack[Len(stack)].deps[stack[Len(stack)].i], "\".">>,
                      path |-> Undefined])
                /\ stack' = SubSeq(stack, 1, Len(stack) - 1)
                /\ ret' = TRUE
                /\ pc' = "hasCycleReturn"]_vars

\* validate has returned for a -> b -> c -> a or its reverse: three cycle errors
C27_Witness ==
  /\ pc = "return"
  /\ SimpleCycleGraph
  /\ Len(DeclaredServices) = 3
  /\ Cardinality(reportedBy) = 3
  /\ \A r \in reportedBy : r.top = 1

(***************************************************************************)
(* The chmod calculator as a machine of its own: the validator is not      *)
(* mounted, and every handler re-renders the component.                    *)
(***************************************************************************)
\* the validator's variables while its page is not shown
ValidatorUnmounted ==
  /\ input = Parsed(Null)
  /\ pc = "unmounted"
  /\ doc = Undefined
  /\ errors = << >>
  /\ svcIdx = 1
  /\ visited = {}
  /\ inStack = {}
  /\ stack = << >>
  /\ arg = << >>
  /\ ret = FALSE
  /\ topIdx = 1
  /\ thrown = Undefined
  /\ yamlError = Null
  /\ validationErrors = << >>
  /\ errorCount = 0
  /\ warningCount = 0
  /\ isValid = FALSE
  /\ banner = "none"
  /\ history = << >>
  /\ reportedBy = {}

validatorVars ==
  <<input, pc, validateVars, thrown, uiVars, historyVars>>

InitChmod ==
  /\ ValidatorUnmounted
  /\ chmod = ChmodMounted
  /\ cron = CronUnmounted
  /\ conv = ConvUnmounted

\* lines 77-82: toggle(role, perm)
toggle ==
  \E role \in {"owner", "group", "other"}, perm \in PermNames :
    /\ chmod' = ChmodRender(
         [chmod.perms EXCEPT ![role] = [@ EXCEPT ![perm] = ~@]], chmod.special)
    /\ UNCHANGED <<validatorVars, cron, conv>>

\* lines 84-87: applyPreset(octal)
applyPreset ==
  \E octal \in presets :
    /\ chmod' = ChmodRender(octalToPerms(octal),
                            [setuid |-> FALSE, setgid |-> FALSE, sticky |-> FALSE])
    /\ UNCHANGED <<validatorVars, cron, conv>>

\* line 161: the onClick of a special-bit button
ToggleSpecial ==
  \E key \in SpecialKeys :
    /\ chmod' = ChmodRender(chmod.perms, [chmod.special EXCEPT ![key] = ~@])
    /\ UNCHANGED <<validatorVars, cron, conv>>

NextChmod == toggle \/ applyPreset \/ ToggleSpecial

SpecChmod == InitChmod /\ [][NextChmod]_vars

\* the octal digit of a permission set, by its three bits
OctalDigitOf(p) ==
  CHOOSE n \in 0..7 :
    /\ HasBit(n, 4) = p.read
    /\ HasBit(n, 2) = p.write
    /\ HasBit(n, 1) = p.execute

\* base AND NOT u on three bits
AndNot(base, u) ==
  (IF HasBit(base, 4) /\ ~HasBit(u, 4) THEN 4 ELSE 0)
    + (IF HasBit(base, 2) /\ ~HasBit(u, 2) THEN 2 ELSE 0)
    + (IF HasBit(base, 1) /\ ~HasBit(u, 1) THEN 1 ELSE 0)

\* C29: for every role with permission digit p, the directory umask digit
\* shown is 7 - p and gives p back as 7 AND NOT u, and the file umask digit
\* shown is max(0, 6 - p) and gives p back as 6 AND NOT u.
C29_UmaskDigits ==
  \A i \in 1..3 :
    LET p == OctalDigitOf(chmod.perms[Roles[i]])
        uDir == ParseDigit(chmod.dirUmask[i])
        uFile == ParseDigit(chmod.fileUmask[i])
    IN /\ Len(chmod.dirUmask) = 3
       /\ Len(chmod.fileUmask) = 3
       /\ uDir = 7 - p
       /\ AndNot(7, uDir) = p
       /\ uFile = (IF 6 - p >= 0 THEN 6 - p ELSE 0)
       /\ AndNot(6, uFile) = p

(***************************************************************************)
(* getNextExecutions of the cron generator as a machine of its own: one    *)
(* call, with the expression, the count and the clock it is given; the     *)
(* while loop, the loop over the parts of a field and the for loop of a    *)
(* step part each take one step per pass.                                  *)
(***************************************************************************)
InitCron ==
  /\ ValidatorUnmounted
  /\ chmod = ChmodMounted
  /\ conv = ConvUnmounted
  /\ cron \in {CronCall(e, n, t) : e \in CronExpressions, n \in CronCounts, t \in CronNows}

\* the locals of a matchesField call as they are before the call
MatchesFieldLeft(c) ==
  [c EXCEPT !.partList = << >>, !.partIdx = 1, !.i = Num(0), !.end = Num(0), !.step = Num(0)]

\* lines 375-384: matchesField returned true: the next field is tried, and
\* after the fifth the date is pushed and the minute advanced
FieldMatched(c) ==
  IF c.fieldIdx = 5
    THEN [MatchesFieldLeft(c) EXCEPT !.dates = Append(@, c.current),
                                     !.current = AddMinute(@), !.pc = "while"]
    ELSE [MatchesFieldLeft(c) EXCEPT !.fieldIdx = @ + 1, !.pc = "matchesField"]

\* lines 363, 375-384: matchesField returned false: the && chain ends and
\* the minute is advanced
FieldNotMatched(c) ==
  [MatchesFieldLeft(c) EXCEPT !.current = AddMinute(@), !.pc = "while"]

\* line 342: the next part of the field
NextPart(c) ==
  [c EXCEPT !.partIdx = @ + 1, !.i = Num(0), !.end = Num(0), !.step = Num(0), !.pc = "part"]

\* lines 330-338
GetNextExecutions ==
  /\ cron.pc = "getNextExecutions"
  /\ LET parts == TrimSplit(cron.expression)
     IN cron' = IF Len(parts) # 5
                  THEN [cron EXCEPT !.parts = parts, !.pc = "done"]
                  ELSE [cron EXCEPT !.parts = parts, !.current = AddMinute(cron.now),
                                    !.pc = "while"]
  /\ UNCHANGED <<validatorVars, chmod, conv>>

\* lines 366-368, 386: the head of the while loop; of the 525960 passes the
\* first MaxMinutes are followed
WhileLoop ==
  /\ cron.pc = "while"
  /\ IF Len(cron.dates) < cron.count /\ cron.iterations < 525960
       THEN /\ cron.iterations < MaxMinutes
            /\ cron' = [cron EXCEPT !.iterations = @ + 1, !.fieldIdx = 1,
                                    !.pc = "matchesField"]
       ELSE cron' = [cron EXCEPT !.pc = "done"]
  /\ UNCHANGED <<validatorVars, chmod, conv>>

\* lines 340-342: matchesField(value, field, min, max) is entered
MatchesField ==
  /\ cron.pc = "matchesField"
  /\ LET field == cron.parts[cron.fieldIdx]
     IN cron' = IF field = <<"*">> THEN FieldMatched(cron)
                ELSE [cron EXCEPT !.partList = SplitOn(field, ","), !.partIdx = 1,
                                  !.pc = "part"]
  /\ UNCHANGED <<validatorVars, chmod, conv>>

\* lines 342-363: one part of the field
MatchesFieldPart ==
  /\ cron.pc = "part"
  /\ IF cron.partIdx > Len(cron.partList)
       THEN cron' = FieldNotMatched(cron)
       ELSE LET part == cron.partList[cron.partIdx]
                value == Num(FieldValue(cron.current, cron.fieldIdx))
                min == Num(FieldMin(cron.fieldIdx))
                max == Num(FieldMax(cron.fieldIdx))
            IN IF IncludesChar(part, "/")
                 THEN LET pieces == SplitOn(part, "/")
                          range == pieces[1]
                          step == ParseInt(pieces[2])
                          ends == IF range # <<"*">> /\ IncludesChar(range, "-")
                                    THEN <<ToNumber(SplitOn(range, "-")[1]),
                                           ToNumber(SplitOn(range, "-")[2])>>
                                  ELSE IF range # <<"*">> THEN <<ParseInt(range), max>>
                                  ELSE <<min, max>>
                      IN cron' = [cron EXCEPT !.i = ends[1], !.end = ends[2],
                                              !.step = step, !.pc = "for"]
               ELSE IF IncludesChar(part, "-")
                 THEN LET s == ToNumber(SplitOn(part, "-")[1])
                          e == ToNumber(SplitOn(part, "-")[2])
                      IN cron' = IF NumGe(value, s) /\ NumLe(value, e)
                                   THEN FieldMatched(cron) ELSE NextPart(cron)
               ELSE cron' = IF NumEq(ParseInt(part), value)
                              THEN FieldMatched(cron) ELSE NextPart(cron)
  /\ UNCHANGED <<validatorVars, chmod, conv>>

\* lines 353-355: one pass of for (let i = start; i <= end; i += step)
MatchesFieldFor ==
  /\ cron.pc = "for"
  /\ cron' = IF NumLe(cron.i, cron.end)
               THEN IF NumEq(cron.i, Num(FieldValue(cron.current, cron.fieldIdx)))
                      THEN FieldMatched(cron)
                      ELSE [cron EXCEPT !.i = NumAdd(@, cron.step)]
               ELSE NextPart(cron)
  /\ UNCHANGED <<validatorVars, chmod, conv>>

NextCron ==
  GetNextExecutions \/ WhileLoop \/ MatchesField \/ MatchesFieldPart \/ MatchesFieldFor

SpecCron == InitCron /\ [][NextCron]_vars

\* a pass of the for loop is about to go on to another pass
ForLoopGoesOn ==
  /\ cron.pc = "for"
  /\ cron.i[1] = "number" /\ cron.end[1] = "number" /\ cron.i[2] <= cron.end[2]
  /\ cron.i[2] # FieldValue(cron.current, cron.fieldIdx)

\* C28: a getNextExecutions call terminates: it never holds more than count
\* dates nor takes more than 525960 minute steps, and every matchesField
\* call in it terminates, whatever the field text: a pass of the for loop
\* that goes on leaves i not a number or greater than it was, so that the
\* loop ends after at most end - start + 1 passes.
C28_CronTerminates ==
  /\ Len(cron.dates) <= cron.count
  /\ cron.iterations <= 525960
  /\ cron.pc = "done" /\ Len(cron.parts) # 5 => cron.dates = << >>
  /\ ForLoopGoesOn =>
       \/ cron.step[1] # "number"
       \/ cron.step[2] >= 1

(***************************************************************************)
(* The converter as a machine of its own: every handler sets state and the *)
(* component renders again, computing output and error anew when the       *)
(* input or a format has changed.                                          *)
(***************************************************************************)
InitConv ==
  /\ ValidatorUnmounted
  /\ chmod = ChmodMounted
  /\ cron = CronUnmounted
  /\ conv \in ConvMounted

\* line 208: the onInput of the input text area
SetInputText ==
  \E text \in ConvTexts :
    /\ conv' \in ConvRerendered(conv, text, conv.inputFormat, conv.outputFormat,
                                "setInput")
    /\ UNCHANGED <<validatorVars, chmod, cron>>

\* line 136: a button of the input format
SetInputFormat ==
  \E f \in Formats :
    /\ conv' \in ConvRerendered(conv, conv.input, f, conv.outputFormat,
                                "setInputFormat")
    /\ UNCHANGED <<validatorVars, chmod, cron>>

\* line 163: a button of the output format
SetOutputFormat ==
  \E f \in Formats :
    /\ conv' \in ConvRerendered(conv, conv.input, conv.inputFormat, f,
                                "setOutputFormat")
    /\ UNCHANGED <<validatorVars, chmod, cron>>

\* lines 108-111
handleAutoDetect ==
  \E detected \in DetectedFormats(conv.input) :
    /\ conv' \in ConvRerendered(conv, conv.input, detected, conv.outputFormat,
                                "handleAutoDetect")
    /\ UNCHANGED <<validatorVars, chmod, cron>>

\* lines 113-119
handleSwap ==
  /\ IF SwapAllowed(conv.output, conv.error)
       THEN conv' \in ConvRerendered(conv, conv.output, conv.outputFormat,
                                     conv.inputFormat, "handleSwap")
       ELSE conv' = [conv EXCEPT !.handler = "handleSwap"]
  /\ UNCHANGED <<validatorVars, chmod, cron>>

\* lines 121-124
loadSample ==
  \E fmt \in Formats :
    /\ conv' \in ConvRerendered(conv, samples[fmt], fmt, conv.outputFormat,
                                "loadSample")
    /\ UNCHANGED <<validatorVars, chmod, cron>>

NextConv ==
  \/ SetInputText
  \/ SetInputFormat
  \/ SetOutputFormat
  \/ handleAutoDetect
  \/ handleSwap
  \/ loadSample

SpecConv == InitConv /\ [][NextConv]_vars

\* C30: handleSwap changes the state only when the output is not empty and
\* no error is set: then the input becomes the output and the two formats
\* change places; otherwise input and formats, and with them the output and
\* the error, stay as they are.  Whatever is swapped, selected or loaded,
\* both formats are among toml, json and yaml.
C30_SwapGuarded ==
  /\ [](conv.inputFormat \in {"toml", "json", "yaml"}
          /\ conv.outputFormat \in {"toml", "json", "yaml"})
  /\ [][handleSwap =>
          IF conv.output # EmptyText /\ conv.error = Null
            THEN /\ conv'.input = conv.output
                 /\ conv'.inputFormat = conv.outputFormat
                 /\ conv'.outputFormat = conv.inputFormat
            ELSE /\ conv'.input = conv.input
                 /\ conv'.inputFormat = conv.inputFormat
                 /\ conv'.outputFormat = conv.outputFormat
                 /\ conv'.output = conv.output
                 /\ conv'.error = conv.error]_vars

\* C30 witness: handleSwap has run on the converter as it mounts (the TOML
\* sample shown as JSON): the input is the JSON text written for the sample
\* and the formats have changed places.
C30_Witness ==
  /\ conv.handler = "handleSwap"
  /\ conv.input = WrittenText(SampleTomlData, "json")
  /\ conv.inputFormat = "json"
  /\ conv.outputFormat = "toml"
  /\ conv.error = Null

\* a handleSwap call that was refused: an error is shown and the input is
\* as it was typed
SwapRefused ==
  /\ conv.handler = "handleSwap"
  /\ conv.error # Null
  /\ conv.input = GarbageText

=============================================================================
